---- MODULE Spec2Model ----
(***************************************************************************)
(* Model of the analysis-and-recommendation core of the bigdata-ai-agent:  *)
(* JobAnalyzer.analyse_jobs (analyzer.py) and RecommendationEngine         *)
(* (recommendation.py).                                                    *)
(*                                                                         *)
(* Values.  The program handles dynamically typed Python values.  A value  *)
(* is a record: None is [none |-> TRUE], a str s is [str |-> s] and an int *)
(* is [sign |-> -1 | 0 | 1, mag |-> magnitude].  Python ints are unbounded *)
(* and the monthly threshold (2,592,000,000 ms) exceeds the 32-bit range   *)
(* of TLC's integers, so a magnitude is a little-endian sequence of limbs   *)
(* in base 10000 without leading zero limbs (zero is <<>>).                *)
(* A float is modelled by the exact non-negative rational                  *)
(* [num |-> magnitude, den |-> magnitude]; rationals are compared by cross *)
(* multiplication, so they are never reduced.                              *)
(***************************************************************************)
EXTENDS Integers, Sequences, FiniteSets, TLC

(***************************************************************************)
(* Unbounded naturals (Python int arithmetic).                             *)
(***************************************************************************)
Base == 100 * 100

RECURSIVE BigNorm(_)
BigNorm(a) ==
    IF a = <<>> THEN <<>>
    ELSE IF a[Len(a)] = 0 THEN BigNorm(SubSeq(a, 1, Len(a) - 1))
    ELSE a

RECURSIVE BigFromInt(_)
BigFromInt(x) ==
    IF x = 0 THEN <<>> ELSE <<x % Base>> \o BigFromInt(x \div Base)

RECURSIVE BigToInt(_)
BigToInt(a) ==
    IF a = <<>> THEN 0 ELSE Head(a) + Base * BigToInt(Tail(a))

RECURSIVE BigAddC(_, _, _)
BigAddC(a, b, carry) ==
    IF a = <<>> /\ b = <<>> THEN BigFromInt(carry)
    ELSE LET x == IF a = <<>> THEN 0 ELSE Head(a)
             y == IF b = <<>> THEN 0 ELSE Head(b)
             t == x + y + carry
         IN  <<t % Base>> \o
             BigAddC(IF a = <<>> THEN <<>> ELSE Tail(a),
                     IF b = <<>> THEN <<>> ELSE Tail(b), t \div Base)

BigAdd(a, b) == BigNorm(BigAddC(a, b, 0))

RECURSIVE BigMulLimb(_, _, _)
BigMulLimb(a, m, carry) ==
    IF a = <<>> THEN BigFromInt(carry)
    ELSE LET t == Head(a) * m + carry
         IN  <<t % Base>> \o BigMulLimb(Tail(a), m, t \div Base)

RECURSIVE BigMul(_, _)
BigMul(a, b) ==
    IF a = <<>> \/ b = <<>> THEN <<>>
    ELSE LET rest == BigMul(a, Tail(b))
         IN  BigAdd(BigNorm(BigMulLimb(a, Head(b), 0)),
                    IF rest = <<>> THEN <<>> ELSE <<0>> \o rest)

\* a < b on normalised magnitudes: fewer limbs, or the most significant
\* limb that differs is smaller.
RECURSIVE BigLess(_, _)
BigLess(a, b) ==
    IF Len(a) # Len(b) THEN Len(a) < Len(b)
    ELSE IF a = <<>> THEN FALSE
    ELSE IF a[Len(a)] # b[Len(b)] THEN a[Len(a)] < b[Len(b)]
    ELSE BigLess(SubSeq(a, 1, Len(a) - 1), SubSeq(b, 1, Len(b) - 1))

BigLeq(a, b) == ~BigLess(b, a)

\* a - b for a >= b.
RECURSIVE BigSubB(_, _, _)
BigSubB(a, b, borrow) ==
    IF a = <<>> THEN <<>>
    ELSE LET y == (IF b = <<>> THEN 0 ELSE Head(b)) + borrow
             x == Head(a)
         IN  <<IF x >= y THEN x - y ELSE x + Base - y>> \o
             BigSubB(Tail(a), IF b = <<>> THEN <<>> ELSE Tail(b),
                     IF x >= y THEN 0 ELSE 1)

BigSub(a, b) == BigNorm(BigSubB(a, b, 0))

\* Floor division and remainder of magnitudes (d > 0), by doubling.
RECURSIVE BigDivMod(_, _)
BigDivMod(n, d) ==
    IF BigLess(n, d) THEN [q |-> <<>>, r |-> n]
    ELSE LET h  == BigDivMod(n, BigAdd(d, d))
             q2 == BigAdd(h.q, h.q)
         IN  IF BigLess(h.r, d) THEN [q |-> q2, r |-> h.r]
             ELSE [q |-> BigAdd(q2, <<1>>), r |-> BigSub(h.r, d)]

(***************************************************************************)
(* Python values.                                                          *)
(***************************************************************************)
None == [none |-> TRUE]

Str(s) == [str |-> s]

\* The int x (a TLC integer) as a Python int.
PyInt(x) ==
    IF x = 0 THEN [sign |-> 0, mag |-> <<>>]
    ELSE IF x > 0 THEN [sign |-> 1, mag |-> BigFromInt(x)]
    ELSE [sign |-> -1, mag |-> BigFromInt(-x)]

\* The non-negative int a * b + c, which may exceed the range of TLC's integers.
PyMulAdd(a, b, c) ==
    LET m == BigAdd(BigMul(BigFromInt(a), BigFromInt(b)), BigFromInt(c))
    IN  [sign |-> IF m = <<>> THEN 0 ELSE 1, mag |-> m]

\* a <= b on Python ints.
PyLeq(a, b) ==
    IF a.sign # b.sign THEN a.sign < b.sign
    ELSE IF a.sign = 1 THEN BigLeq(a.mag, b.mag)
    ELSE IF a.sign = -1 THEN BigLeq(b.mag, a.mag)
    ELSE TRUE

(***************************************************************************)
(* Floats as exact non-negative rationals.                                 *)
(***************************************************************************)
Q(n, d) == [num |-> BigFromInt(n), den |-> BigFromInt(d)]

QDiv(x, y) == [num |-> BigMul(x.num, y.den), den |-> BigMul(x.den, y.num)]

QMul(x, y) == [num |-> BigMul(x.num, y.num), den |-> BigMul(x.den, y.den)]

QLess(x, y) == BigLess(BigMul(x.num, y.den), BigMul(y.num, x.den))

QEq(x, y) == BigMul(x.num, y.den) = BigMul(y.num, x.den)

\* max(x, y): the first argument unless the second is greater.
QMax(x, y) == IF QLess(x, y) THEN y ELSE x

\* float(i) of a non-negative Python int.
QOfInt(i) == [num |-> i.mag, den |-> <<1>>]

\* bool(x) of a float: zero is falsy.
QTruthy(x) == x.num # <<>>

\* int(x): truncation, which is floor for a non-negative float.
QInt(x) == BigToInt(BigDivMod(x.num, x.den).q)

\* round(x): Python rounds a tie to the even neighbour.
QRound(x) ==
    LET dm    == BigDivMod(x.num, x.den)
        q     == BigToInt(dm.q)
        twice == BigAdd(dm.r, dm.r)
    IN  IF BigLess(twice, x.den) THEN q
        ELSE IF BigLess(x.den, twice) THEN q + 1
        ELSE IF q % 2 = 0 THEN q ELSE q + 1

(***************************************************************************)
(* analyzer.py: JobAnalyzer.                                               *)
(***************************************************************************)
\* Duration thresholds in milliseconds (Python ints).
HOURLY_THRESHOLD_MS == PyMulAdd(60 * 60, 1000, 0)

TWO_HOURS_THRESHOLD_MS == PyMulAdd(2 * 60 * 60, 1000, 0)

DAILY_THRESHOLD_MS == PyMulAdd(24 * 60 * 60, 1000, 0)

WEEKLY_THRESHOLD_MS == PyMulAdd(7 * 24 * 60 * 60, 1000, 0)

MONTHLY_THRESHOLD_MS == PyMulAdd(30 * 24 * 60 * 60, 1000, 0)

\* JobAnalyzer.__init__: self.custom_sla = custom_sla or {}.
CustomSlaOf(custom_sla) ==
    IF custom_sla = None \/ DOMAIN custom_sla = {} THEN <<>> ELSE custom_sla

\* bool(v) of a value that is None or a str.
StrTruthy(v) == v # None /\ v.str # ""

\* The guard without its test for a duration of zero.
SkipJob_ZeroKept(app_id, elapsed) ==
    \/ ~StrTruthy(app_id)
    \/ elapsed = None
    \/ PyLeq(elapsed, PyInt(-1))

\* The guard that skips a record: not app_id or elapsed is None or elapsed <= 0.
SkipJob(app_id, elapsed) ==
    \/ ~StrTruthy(app_id)
    \/ elapsed = None
    \/ PyLeq(elapsed, PyInt(0))

\* elapsed_sec = elapsed / 1000.0
ElapsedSec(elapsed) == QDiv(QOfInt(elapsed), Q(1000, 1))

\* The average taken only of a truthy counter ("if counter" for
\* "if counter is not None").
Average_Truthy(counter, elapsed_sec) ==
    IF counter = None \/ counter.sign = 0 THEN None
    ELSE IF elapsed_sec.num = <<>> THEN [raise |-> "ZeroDivisionError"]
    ELSE QDiv(QOfInt(counter), elapsed_sec)

\* counter / elapsed_sec if counter is not None else None.  A float
\* division by zero raises ZeroDivisionError.
Average(counter, elapsed_sec) ==
    IF counter = None THEN None
    ELSE IF elapsed_sec.num = <<>> THEN [raise |-> "ZeroDivisionError"]
    ELSE QDiv(QOfInt(counter), elapsed_sec)

\* The lookup with the name tried before the id.
CustomEntry_NameFirst(table, app_id, app_name) ==
    IF StrTruthy(app_name) /\ app_name.str \in DOMAIN table
    THEN table[app_name.str]
    ELSE IF app_id.str \in DOMAIN table THEN table[app_id.str]
    ELSE None

\* The lookup passing over an empty entry keyed by the id.
CustomEntry_SkipEmpty(table, app_id, app_name) ==
    IF app_id.str \in DOMAIN table /\ DOMAIN table[app_id.str] # {}
    THEN table[app_id.str]
    ELSE IF StrTruthy(app_name) /\ app_name.str \in DOMAIN table
         THEN table[app_name.str]
    ELSE IF app_id.str \in DOMAIN table THEN table[app_id.str]
    ELSE None

\* The custom SLA entry of a job: looked up by id, else by a truthy name.
CustomEntry(table, app_id, app_name) ==
    IF app_id.str \in DOMAIN table THEN table[app_id.str]
    ELSE IF StrTruthy(app_name) /\ app_name.str \in DOMAIN table
         THEN table[app_name.str]
    ELSE None

\* "if custom_entry:" is false for None and for an empty dict.
EntryTruthy(custom_entry) == custom_entry # None /\ DOMAIN custom_entry # {}

\* The category of a custom entry without reading what it declares.
EntryCategory_Fixed(custom_entry) == "custom"

\* custom_entry.get("category", "custom")
EntryCategory(custom_entry) ==
    IF "category" \in DOMAIN custom_entry THEN custom_entry.category
    ELSE "custom"

\* The thresholds as exclusive upper bounds.
ThresholdCategory_Exclusive(elapsed) ==
    IF ~PyLeq(HOURLY_THRESHOLD_MS, elapsed) THEN "hourly"
    ELSE IF ~PyLeq(TWO_HOURS_THRESHOLD_MS, elapsed) THEN "two_hours"
    ELSE IF ~PyLeq(DAILY_THRESHOLD_MS, elapsed) THEN "daily"
    ELSE IF ~PyLeq(WEEKLY_THRESHOLD_MS, elapsed) THEN "weekly"
    ELSE "monthly"

\* Category by elapsed time thresholds.
ThresholdCategory(elapsed) ==
    IF PyLeq(elapsed, HOURLY_THRESHOLD_MS) THEN "hourly"
    ELSE IF PyLeq(elapsed, TWO_HOURS_THRESHOLD_MS) THEN "two_hours"
    ELSE IF PyLeq(elapsed, DAILY_THRESHOLD_MS) THEN "daily"
    ELSE IF PyLeq(elapsed, WEEKLY_THRESHOLD_MS) THEN "weekly"
    ELSE IF PyLeq(elapsed, MONTHLY_THRESHOLD_MS) THEN "monthly"
    ELSE "monthly"

\* An entry that is a non-empty text instead of a mapping (a table read
\* from a file may hold one): it is truthy and has no method get.
IsText(custom_entry) == DOMAIN custom_entry = {"str"} /\ custom_entry.str # ""

\* Category and initial notes.  A note is a sequence of text pieces; the
\* empty note is <<>>.
CategoryAndNotes(custom_entry, elapsed) ==
    IF EntryTruthy(custom_entry)
    THEN IF IsText(custom_entry) THEN [raise |-> "AttributeError"]
         ELSE LET category == EntryCategory(custom_entry)
              IN  [category |-> category,
                   notes |-> <<"Custom SLA applied (category=", category, ")">>]
    ELSE [category |-> ThresholdCategory(elapsed), notes |-> <<>>]

LowCpu(avg_cpu) == avg_cpu # None /\ QLess(avg_cpu, Q(1, 10))

LowMemory(avg_memory) == avg_memory # None /\ QLess(avg_memory, Q(256, 1))

HighCpu(avg_cpu) == avg_cpu # None /\ QLess(Q(4, 1), avg_cpu)

HighMemory(avg_memory) == avg_memory # None /\ QLess(Q(16384, 1), avg_memory)

\* A rule that writes its note whether or not a note is there.
ApplyRule_Overwrite(fires, status, note, st) ==
    IF fires THEN [status |-> status, notes |-> <<note>>] ELSE st

\* One rule of the utilisation heuristics: when it fires it overwrites the
\* status and writes the note only if the note is still empty.
ApplyRule(fires, status, note, st) ==
    IF fires
    THEN [status |-> status,
          notes |-> IF st.notes = <<>> THEN <<note>> ELSE st.notes]
    ELSE st

\* The four rules with the two high-usage rules evaluated first.
StatusAndNotes_HighFirst(avg_cpu, avg_memory, notes) ==
    LET s0 == [status |-> "normal", notes |-> notes]
        s1 == [status |-> IF HighCpu(avg_cpu) \/ HighMemory(avg_memory)
                          THEN "overutilised" ELSE "normal",
               notes |-> notes]
        s2 == [status |-> IF LowCpu(avg_cpu) \/ LowMemory(avg_memory)
                          THEN "underutilised" ELSE s1.status,
               notes |-> notes]
    IN  [status |-> s2.status,
         notes  |-> IF notes # <<>> THEN notes
                    ELSE IF LowCpu(avg_cpu)
                         THEN <<"Low CPU usage; consider reducing executors or cores">>
                    ELSE IF LowMemory(avg_memory)
                         THEN <<"Low memory usage; consider reducing executor memory">>
                    ELSE IF HighCpu(avg_cpu)
                         THEN <<"High CPU usage; job may be starved or need more cores">>
                    ELSE IF HighMemory(avg_memory)
                         THEN <<"High memory usage; job may require additional memory">>
                    ELSE <<>>]

\* Utilisation status and final notes: the four rules in source order.
StatusAndNotes(avg_cpu, avg_memory, notes) ==
    LET s0 == [status |-> "normal", notes |-> notes]
        s1 == ApplyRule(LowCpu(avg_cpu), "underutilised",
                  "Low CPU usage; consider reducing executors or cores", s0)
        s2 == ApplyRule(LowMemory(avg_memory), "underutilised",
                  "Low memory usage; consider reducing executor memory", s1)
        s3 == ApplyRule(HighCpu(avg_cpu), "overutilised",
                  "High CPU usage; job may be starved or need more cores", s2)
        s4 == ApplyRule(HighMemory(avg_memory), "overutilised",
                  "High memory usage; job may require additional memory", s3)
    IN  s4

\* One iteration of the loop of analyse_jobs: "skip" (continue), "raise"
\* (an exception leaves the loop) or "result" (an AnalysisResult is appended).
AnalyseJob(table, job) ==
    LET cluster_name  == job.cluster_name
        app_id        == job.id
        app_name      == job.name
        elapsed       == job.elapsedTime
        mem_seconds   == job.memorySeconds
        vcore_seconds == job.vcoreSeconds
    IN  IF SkipJob(app_id, elapsed) THEN [kind |-> "skip"]
        ELSE
        LET elapsed_sec == ElapsedSec(elapsed)
            avg_memory  == Average(mem_seconds, elapsed_sec)
            avg_cpu     == Average(vcore_seconds, elapsed_sec)
        IN  IF "raise" \in (DOMAIN avg_memory \cup DOMAIN avg_cpu)
            THEN [kind |-> "raise"]
            ELSE
            LET cn == CategoryAndNotes(CustomEntry(table, app_id, app_name),
                                       elapsed)
                sn == StatusAndNotes(avg_cpu, avg_memory, cn.notes)
            IN  IF "raise" \in DOMAIN cn THEN [kind |-> "raise"]
                ELSE
                [kind |-> "result",
                 res  |-> [cluster_name |-> cluster_name,
                           app_id       |-> app_id,
                           category     |-> cn.category,
                           avg_cpu      |-> avg_cpu,
                           avg_memory   |-> avg_memory,
                           status       |-> sn.status,
                           notes        |-> sn.notes]]

\* JobAnalyzer(custom_sla).analyse_jobs(jobs): the list of results, in the
\* order of the loop, unless an iteration raises.
RECURSIVE AnalyseLoop(_, _, _)
AnalyseLoop(table, jobs, results) ==
    IF jobs = <<>> THEN [raised |-> FALSE, results |-> results]
    ELSE LET r == AnalyseJob(table, Head(jobs))
         IN  IF r.kind = "raise" THEN [raised |-> TRUE, results |-> results]
             ELSE AnalyseLoop(table, Tail(jobs),
                      IF r.kind = "skip" THEN results
                      ELSE Append(results, r.res))

analyse_jobs(custom_sla, jobs) == AnalyseLoop(CustomSlaOf(custom_sla), jobs, <<>>)

(***************************************************************************)
(* recommendation.py: RecommendationEngine.                                *)
(* A reply of the model service is a sequence of one-character strings.    *)
(***************************************************************************)
Digits == {"0", "1", "2", "3", "4", "5", "6", "7", "8", "9"}

DigitValue(c) ==
    CASE c = "0" -> 0 [] c = "1" -> 1 [] c = "2" -> 2 [] c = "3" -> 3
      [] c = "4" -> 4 [] c = "5" -> 5 [] c = "6" -> 6 [] c = "7" -> 7
      [] c = "8" -> 8 [] c = "9" -> 9

\* The number of leading digits of a text.
RECURSIVE DigitRun(_)
DigitRun(text) ==
    IF text # <<>> /\ Head(text) \in Digits THEN 1 + DigitRun(Tail(text))
    ELSE 0

\* The length of the match of \d+\.?\d* at the start of a text that starts
\* with a digit: the digits, a dot if one follows, and the digits after it.
MatchLen(text) ==
    LET n    == DigitRun(text)
        rest == SubSeq(text, n + 1, Len(text))
    IN  IF rest # <<>> /\ Head(rest) = "."
        THEN n + 1 + DigitRun(Tail(rest))
        ELSE n

\* re.findall(r"\d+\.?\d*", message): the non-overlapping matches from left
\* to right.
RECURSIVE FindAll(_)
FindAll(text) ==
    IF text = <<>> THEN <<>>
    ELSE IF Head(text) \in Digits
         THEN LET n == MatchLen(text)
              IN  <<SubSeq(text, 1, n)>> \o FindAll(SubSeq(text, n + 1, Len(text)))
    ELSE FindAll(Tail(text))

\* The magnitude written by a run of decimal digits.
RECURSIVE DigitsValue(_, _)
DigitsValue(ds, acc) ==
    IF ds = <<>> THEN acc
    ELSE DigitsValue(Tail(ds),
             BigAdd(BigNorm(BigMulLimb(acc, 10, 0)), BigFromInt(DigitValue(Head(ds)))))

RECURSIVE PowerOfTen(_)
PowerOfTen(k) == IF k = 0 THEN <<1>> ELSE BigNorm(BigMulLimb(PowerOfTen(k - 1), 10, 0))

\* float(token) of a match of \d+\.?\d*.
Float(token) ==
    LET n    == DigitRun(token)
        frac == IF n < Len(token) THEN SubSeq(token, n + 2, Len(token)) ELSE <<>>
    IN  [num |-> DigitsValue(SubSeq(token, 1, n) \o frac, <<>>),
         den |-> PowerOfTen(Len(frac))]

RECURSIVE MapFloat(_)
MapFloat(tokens) ==
    IF tokens = <<>> THEN <<>> ELSE <<Float(Head(tokens))>> \o MapFloat(Tail(tokens))

\* The heuristic applied as soon as one of the averages is usable.
_heuristic_recommendation_AnyMetric(analysis) ==
    LET cpu == analysis.avg_cpu # None /\ QTruthy(analysis.avg_cpu)
        mem == analysis.avg_memory # None /\ QTruthy(analysis.avg_memory)
    IN  IF cpu \/ mem
        THEN [executors |-> IF cpu /\ QRound(analysis.avg_cpu) > 1
                            THEN QRound(analysis.avg_cpu) ELSE 1,
              memory    |-> IF mem
                            THEN QMax(Q(512, 1), QMul(analysis.avg_memory, Q(3, 2)))
                            ELSE Q(512, 1),
              cores     |-> 1,
              note      |-> <<"Heuristic recommendation based on average usage">>]
        ELSE [executors |-> 2,
              memory    |-> Q(1024, 1),
              cores     |-> 1,
              note      |-> <<"Default recommendation due to missing metrics">>]

\* The heuristic without its lower bounds on executors and memory.
_heuristic_recommendation_Unclamped(analysis) ==
    IF /\ analysis.avg_cpu # None /\ QTruthy(analysis.avg_cpu)
       /\ analysis.avg_memory # None /\ QTruthy(analysis.avg_memory)
    THEN [executors |-> QRound(analysis.avg_cpu),
          memory    |-> QMul(analysis.avg_memory, Q(3, 2)),
          cores     |-> 1,
          note      |-> <<"Heuristic recommendation based on average usage">>]
    ELSE [executors |-> 2,
          memory    |-> Q(1024, 1),
          cores     |-> 1,
          note      |-> <<"Default recommendation due to missing metrics">>]

\* The heuristic testing the averages for None only ("is not None" for the
\* truth value).
_heuristic_recommendation_NoneOnly(analysis) ==
    IF analysis.avg_cpu # None /\ analysis.avg_memory # None
    THEN [executors |-> IF QRound(analysis.avg_cpu) > 1
                        THEN QRound(analysis.avg_cpu) ELSE 1,
          memory    |-> QMax(Q(512, 1), QMul(analysis.avg_memory, Q(3, 2))),
          cores     |-> 1,
          note      |-> <<"Heuristic recommendation based on average usage">>]
    ELSE [executors |-> 2,
          memory    |-> Q(1024, 1),
          cores     |-> 1,
          note      |-> <<"Default recommendation due to missing metrics">>]

\* RecommendationEngine._heuristic_recommendation
_heuristic_recommendation(analysis) ==
    IF /\ analysis.avg_cpu # None /\ QTruthy(analysis.avg_cpu)
       /\ analysis.avg_memory # None /\ QTruthy(analysis.avg_memory)
    THEN [executors |-> IF QRound(analysis.avg_cpu) > 1
                        THEN QRound(analysis.avg_cpu) ELSE 1,
          memory    |-> QMax(Q(512, 1), QMul(analysis.avg_memory, Q(3, 2))),
          cores     |-> 1,
          note      |-> <<"Heuristic recommendation based on average usage">>]
    ELSE [executors |-> 2,
          memory    |-> Q(1024, 1),
          cores     |-> 1,
          note      |-> <<"Default recommendation due to missing metrics">>]

\* The parser reading the numbers in the order of the returned tuple
\* (executors, memory, cores).
_parse_recommendation_TupleOrder(message, analysis) ==
    LET numbers == MapFloat(FindAll(message))
    IN  IF Len(numbers) >= 3
        THEN [executors |-> QInt(numbers[1]),
              memory    |-> numbers[2],
              cores     |-> QInt(numbers[3]),
              note      |-> message]
        ELSE _heuristic_recommendation(analysis)

\* RecommendationEngine._parse_recommendation
_parse_recommendation(message, analysis) ==
    LET numbers == MapFloat(FindAll(message))
    IN  IF Len(numbers) >= 3
        THEN [executors |-> QInt(numbers[1]),
              memory    |-> numbers[3],
              cores     |-> QInt(numbers[2]),
              note      |-> message]
        ELSE _heuristic_recommendation(analysis)

\* RecommendationEngine._build_prompt: formatting None with ":.2f" raises
\* TypeError.  The text of the prompt decides nothing in the engine (the
\* reply of the service is arbitrary), so only this outcome is kept.
_build_prompt(analysis) ==
    IF analysis.avg_cpu = None \/ analysis.avg_memory = None
    THEN "TypeError" ELSE "prompt"

\* RecommendationEngine.recommend with the API key of the configuration and
\* one behaviour of the environment: the openai package is missing
\* ("import_error"), the call or the indexing of its response raises
\* ("error"), or the response carries a content (a text or None).  calls
\* counts the calls of openai.ChatCompletion.create.
Returned(r, calls) == [kind |-> "return", rec |-> r, calls |-> calls]

\* The engine calling the service again after a failed call.
recommend_Retry(openai_api_key, service, analysis) ==
    IF openai_api_key = "" THEN Returned(_heuristic_recommendation(analysis), 0)
    ELSE IF service.kind = "import_error"
         THEN Returned(_heuristic_recommendation(analysis), 0)
    ELSE IF _build_prompt(analysis) = "TypeError" THEN [kind |-> "raise", calls |-> 0]
    ELSE IF service.kind = "error"
         THEN Returned(_heuristic_recommendation(analysis), 2)
    ELSE IF service.content = None
         THEN Returned(_heuristic_recommendation(analysis), 1)
    ELSE Returned(_parse_recommendation(service.content.text, analysis), 1)

recommend(openai_api_key, service, analysis) ==
    IF openai_api_key = "" THEN Returned(_heuristic_recommendation(analysis), 0)
    ELSE IF service.kind = "import_error"
         THEN Returned(_heuristic_recommendation(analysis), 0)
    ELSE IF _build_prompt(analysis) = "TypeError" THEN [kind |-> "raise", calls |-> 0]
    ELSE IF service.kind = "error"
         THEN Returned(_heuristic_recommendation(analysis), 1)
    ELSE IF service.content = None  \* re.findall(None) raises inside the try
         THEN Returned(_heuristic_recommendation(analysis), 1)
    ELSE Returned(_parse_recommendation(service.content.text, analysis), 1)

(***************************************************************************)
(* database.py: the three tables.  jobs and recommendations have the       *)
(* primary key (cluster_name, app_id) and are functions of the key;        *)
(* spark_metrics has an AUTO_INCREMENT key only and is the sequence of its *)
(* rows.  The timestamp columns and the job columns that no stage reads    *)
(* (user, queue, state, ...) are left out; they are copied like the others.*)
(***************************************************************************)
EmptyTable == <<>>

\* INSERT ... ON DUPLICATE KEY UPDATE of every column but the key.
Upsert(table, key, row) == (key :> row) @@ table

\* The statement of Database.insert_jobs for one job: job.get of every
\* field, stored under the column names.
JobRow(job) ==
    [name           |-> job.name,
     elapsed_time   |-> job.elapsedTime,
     memory_seconds |-> job.memorySeconds,
     vcore_seconds  |-> job.vcoreSeconds]

\* Database.insert_jobs
RECURSIVE insert_jobs(_, _, _)
insert_jobs(table, cluster_name, apps) ==
    IF apps = <<>> THEN table
    ELSE insert_jobs(Upsert(table, <<cluster_name, Head(apps).id>>, JobRow(Head(apps))),
                     cluster_name, Tail(apps))

\* Database.insert_spark_metrics: a plain INSERT per metric.
RECURSIVE insert_spark_metrics(_, _, _, _)
insert_spark_metrics(rows, cluster_name, app_id, metrics) ==
    IF metrics = <<>> THEN rows
    ELSE insert_spark_metrics(
             Append(rows, [cluster_name  |-> cluster_name,
                           app_id        |-> app_id,
                           executor_id   |-> Head(metrics).executor_id,
                           metric_name   |-> Head(metrics).metric_name,
                           metric_value  |-> Head(metrics).metric_value]),
             cluster_name, app_id, Tail(metrics))

\* INSERT IGNORE in place of the upsert: an existing row is kept.
upsert_recommendation_KeepExisting(table, key, row) ==
    IF key \in DOMAIN table THEN table ELSE Upsert(table, key, row)

\* Database.upsert_recommendation
upsert_recommendation(table, key, row) == Upsert(table, key, row)

\* The order in which a scan of a table returns its rows: the order of the
\* primary key.
KeyOrder ==
    <<<<Str("c1"), Str("")>>, <<Str("c1"), Str("app_1")>>,
      <<Str("c1"), Str("app_2")>>, <<Str("c1"), Str("app_3")>>,
      <<Str("c2"), Str("")>>, <<Str("c2"), Str("app_1")>>,
      <<Str("c2"), Str("app_2")>>, <<Str("c2"), Str("app_3")>>,
      <<Str("default"), Str("")>>, <<Str("default"), Str("app_1")>>,
      <<Str("default"), Str("app_2")>>, <<Str("default"), Str("app_3")>>>>

\* Database.fetch_jobs(): every row of jobs, the columns under their aliases.
fetch_jobs(table) ==
    LET InTable(key) == key \in DOMAIN table
        keys == SelectSeq(KeyOrder, InTable)
    IN  [i \in 1..Len(keys) |->
            [cluster_name  |-> keys[i][1],
             id            |-> keys[i][2],
             name          |-> table[keys[i]].name,
             elapsedTime   |-> table[keys[i]].elapsed_time,
             memorySeconds |-> table[keys[i]].memory_seconds,
             vcoreSeconds  |-> table[keys[i]].vcore_seconds]]

(***************************************************************************)
(* main.py, profile_jobs.  cfg is the Config of the run; env gives what    *)
(* the collaborators answer: env.yarn[cluster] for list_applications and   *)
(* env.spark[app_id] for list_executors, each an error or a list.  db is   *)
(* the record of the three tables.                                         *)
(***************************************************************************)
Get(dict, key) == IF key \in DOMAIN dict THEN dict[key] ELSE None

\* ex.get("id") or ex.get("executorId") or ex.get("hostPort")
ExecutorId(ex) ==
    IF StrTruthy(Get(ex, "id")) THEN Get(ex, "id")
    ELSE IF StrTruthy(Get(ex, "executorId")) THEN Get(ex, "executorId")
    ELSE Get(ex, "hostPort")

MetricNames == <<"totalDuration", "maxMemory", "memoryUsed", "totalGCTime">>

\* The metrics of one executor, in the order of the four tests.
ExecutorMetrics(ex) ==
    LET Present(metric_name) == metric_name \in DOMAIN ex
        names == SelectSeq(MetricNames, Present)
    IN  [i \in 1..Len(names) |->
            [executor_id  |-> ExecutorId(ex),
             metric_name  |-> names[i],
             metric_value |-> ex[names[i]]]]

RECURSIVE CollectMetrics(_)
CollectMetrics(executors) ==
    IF executors = <<>> THEN <<>>
    ELSE ExecutorMetrics(Head(executors)) \o CollectMetrics(Tail(executors))

\* The loop over the applications of one cluster (main.py 92-115).
RECURSIVE ProfileApps(_, _, _, _)
ProfileApps(rows, env, cluster_name, apps) ==
    IF apps = <<>> THEN rows
    ELSE LET app_id == Head(apps).id
             reply == env.spark[app_id]
         IN  IF ~StrTruthy(app_id)
             THEN ProfileApps(rows, env, cluster_name, Tail(apps))
             ELSE IF reply.kind = "error"
             THEN ProfileApps(rows, env, cluster_name, Tail(apps))
             ELSE IF CollectMetrics(reply.executors) = <<>>
             THEN ProfileApps(rows, env, cluster_name, Tail(apps))
             ELSE ProfileApps(insert_spark_metrics(rows, cluster_name, app_id,
                                                   CollectMetrics(reply.executors)),
                              env, cluster_name, Tail(apps))

\* The clusters of the run: cfg.clusters, or the cluster "default".
ClustersOf(cfg) ==
    IF cfg.clusters # <<>> THEN cfg.clusters ELSE <<Str("default")>>

RECURSIVE ProfileClusters(_, _, _)

\* The loop over the clusters leaving at the first failed fetch.
ProfileClusters_Break(db, env, clusters) ==
    IF clusters = <<>> THEN db
    ELSE LET cluster_name == Head(clusters)
             reply == env.yarn[cluster_name]
         IN  IF reply.kind = "error" THEN db
             ELSE ProfileClusters(
                      [db EXCEPT
                         !.jobs_table = insert_jobs(@, cluster_name, reply.apps),
                         !.spark_metrics = ProfileApps(@, env, cluster_name, reply.apps)],
                      env, Tail(clusters))

\* The loop over the clusters (main.py 63-115).
ProfileClusters(db, env, clusters) ==
    IF clusters = <<>> THEN db
    ELSE LET cluster_name == Head(clusters)
             reply == env.yarn[cluster_name]
         IN  IF reply.kind = "error"
             THEN ProfileClusters(db, env, Tail(clusters))
             ELSE ProfileClusters(
                      [db EXCEPT
                         !.jobs_table = insert_jobs(@, cluster_name, reply.apps),
                         !.spark_metrics = ProfileApps(@, env, cluster_name, reply.apps)],
                      env, Tail(clusters))

\* profile_jobs(cfg): the storage after the stage; nothing in it raises when
\* the storage accepts the statements.
profile_jobs(cfg, env, db) ==
    [db |-> ProfileClusters(db, env, ClustersOf(cfg)), raised |-> FALSE, trace |-> <<>>]

(***************************************************************************)
(* main.py, analyse_jobs(cfg) and generate_recommendations(cfg).           *)
(* env.sla_file is what reading cfg.custom_sla_file gives, env.service     *)
(* what the model service does.  A stage that raises keeps the statements  *)
(* already executed (the connection is in autocommit mode).  trace lists   *)
(* the calls to the storage, the repository and the notifier in the order  *)
(* they are made.                                                          *)
(***************************************************************************)
\* The loading of the custom SLA file (main.py 124-147 and 173-195): None
\* without a file and when reading or parsing it raises; otherwise what the
\* parser returns, whatever its shape.
LoadCustomSla(cfg, env) ==
    IF cfg.custom_sla_file = "" THEN None
    ELSE IF env.sla_file.kind = "error" THEN None
    ELSE env.sla_file.table

Key(res) == <<res.cluster_name, res.app_id>>

\* The columns written for a result; r is None or the recommendation.
RecommendationRow(res, r) ==
    [category              |-> res.category,
     avg_cpu               |-> res.avg_cpu,
     avg_memory            |-> res.avg_memory,
     status                |-> res.status,
     recommended_executors |-> IF r = None THEN None ELSE r.executors,
     recommended_memory    |-> IF r = None THEN None ELSE r.memory,
     recommended_cores     |-> IF r = None THEN None ELSE r.cores,
     notes                 |-> IF r = None THEN res.notes ELSE r.note]

\* The loop of analyse_jobs(cfg) over the results (main.py 151-163).
RECURSIVE PersistResults(_, _)

\* The loop writing a row only for the keys that have none.
PersistResults_OnlyNew(table, results) ==
    IF results = <<>> THEN table
    ELSE PersistResults(
             IF Key(Head(results)) \in DOMAIN table THEN table
             ELSE upsert_recommendation(table, Key(Head(results)),
                                        RecommendationRow(Head(results), None)),
             Tail(results))

PersistResults(table, results) ==
    IF results = <<>> THEN table
    ELSE PersistResults(
             upsert_recommendation(table, Key(Head(results)),
                                   RecommendationRow(Head(results), None)),
             Tail(results))

\* The stage clearing the executor metrics it has consumed.
PersistAnalysis_ClearMetrics(db, out) ==
    IF out.raised
    THEN [db |-> db, raised |-> TRUE, trace |-> <<>>]
    ELSE [db |-> [db EXCEPT !.recommendations = PersistResults(@, out.results),
                            !.spark_metrics = <<>>],
          raised |-> FALSE,
          trace |-> [i \in 1..Len(out.results) |->
                        [op |-> "upsert", key |-> Key(out.results[i])]]]

\* The stage once the jobs are analysed: out is what analyse_jobs returns.
PersistAnalysis(db, out) ==
    IF out.raised
    THEN [db |-> db, raised |-> TRUE, trace |-> <<>>]
    ELSE [db |-> [db EXCEPT !.recommendations = PersistResults(@, out.results)],
          raised |-> FALSE,
          trace |-> [i \in 1..Len(out.results) |->
                        [op |-> "upsert", key |-> Key(out.results[i])]]]

\* analyse_jobs(cfg) of main.py
main_analyse_jobs(cfg, env, db) ==
    PersistAnalysis(db, analyse_jobs(LoadCustomSla(cfg, env), fetch_jobs(db.jobs_table)))

\* format(value, format_spec) for a float or None: the specifications of the
\* form ".<digit>f" are valid for a float, None accepts the empty one only.
Format(value, format_spec) ==
    IF value = None
    THEN IF format_spec = ""
         THEN [text |-> <<"None">>] ELSE [raise |-> "TypeError"]
    ELSE IF format_spec \in {".0f", ".2f"}
         THEN [text |-> <<format_spec, value>>] ELSE [raise |-> "ValueError"]

Raises(r) == "raise" \in DOMAIN r

\* The f-string of main.py 246-251.  Everything after the colon of a
\* replacement field is its format specification.
SummaryLine(res, r) ==
    LET avg_cpu == Format(res.avg_cpu, ".2f if res.avg_cpu else 'N/A'")
        avg_mem == Format(res.avg_memory, ".2f if res.avg_memory else 'N/A'")
        rec_mem == Format(r.memory, ".0f")
    IN  IF Raises(avg_cpu) THEN avg_cpu
        ELSE IF Raises(avg_mem) THEN avg_mem
        ELSE IF Raises(rec_mem) THEN rec_mem
        ELSE [text |-> <<Key(res), res.category, avg_cpu.text, avg_mem.text,
                         r.executors, rec_mem.text, r.cores>>]

\* The writing of the recommendation file and its commit (main.py
\* 223-245), neither of them guarded.  Path and json are bound in the
\* function by the imports of lines 176-177, which run only when a custom
\* SLA file is configured.  env.git tells what the repository does during
\* the run: "ok"; "nonzero", git exits with an error code, which
\* GitHandler logs; "missing", git cannot be executed and subprocess.run
\* raises; "write_error", the file cannot be written.
WriteFile(cfg, env, res) ==
    IF cfg.git_repo_path = "" THEN [trace |-> <<>>]
    ELSE IF cfg.custom_sla_file = ""
    THEN [raise |-> "UnboundLocalError", trace |-> <<>>]
    ELSE IF env.git = "write_error" THEN [raise |-> "OSError", trace |-> <<>>]
    ELSE IF env.git = "missing"
    THEN [raise |-> "FileNotFoundError",
          trace |-> <<[op |-> "write", key |-> Key(res)]>>]
    ELSE [trace |-> <<[op |-> "write", key |-> Key(res)],
                      [op |-> "commit", key |-> Key(res),
                       committed |-> env.git = "ok"]>>]

\* One turn of the loop of generate_recommendations (main.py 208-251) for
\* the result res, out being what engine.recommend(res) gives; st carries
\* the recommendations table, the trace and slack_summary_lines.
RecommendStep(st, cfg, env, res, out) ==
    LET line == SummaryLine(res, out.rec)
        file == WriteFile(cfg, env, res)
        stored == [st EXCEPT
                     !.recommendations =
                         upsert_recommendation(@, Key(res),
                                               RecommendationRow(res, out.rec)),
                     !.trace = Append(@, [op |-> "upsert", key |-> Key(res)])]
    IN  IF out.kind = "raise" THEN [st EXCEPT !.raised = TRUE]
        ELSE IF Raises(file)
        THEN [stored EXCEPT !.trace = @ \o file.trace, !.raised = TRUE]
        ELSE IF Raises(line)
        THEN [stored EXCEPT !.trace = @ \o file.trace, !.raised = TRUE]
        ELSE [stored EXCEPT !.trace = @ \o file.trace,
                            !.lines = Append(@, line.text)]

RECURSIVE RecommendLoop(_, _, _, _)

\* The rest of the loop after a turn: an exception leaves it.
RecommendRest(st, cfg, env, results) ==
    IF st.raised THEN st ELSE RecommendLoop(st, cfg, env, results)

\* The loop taking the results from the last to the first.
RecommendLoop_Reverse(st, cfg, env, results) ==
    IF results = <<>> THEN st
    ELSE RecommendRest(
             RecommendStep(st, cfg, env, results[Len(results)],
                           recommend(cfg.openai_api_key, env.service,
                                     results[Len(results)])),
             cfg, env, SubSeq(results, 1, Len(results) - 1))

\* The loop over the results.
RecommendLoop(st, cfg, env, results) ==
    IF results = <<>> THEN st
    ELSE RecommendRest(
             RecommendStep(st, cfg, env, Head(results),
                           recommend(cfg.openai_api_key, env.service, Head(results))),
             cfg, env, Tail(results))

\* GitHandler.init_repo inside its try (main.py 202-205): it raises
\* without a repository and when git cannot be executed, and the exception
\* is logged.
InitRepo(cfg, env) ==
    <<[op |-> "init_repo",
       raised |-> (cfg.git_repo_path = "" \/ env.git = "missing")]>>

\* GitHandler.push inside its try (main.py 253-256): runs git push when a
\* repository and a remote are set; an error code and an exception are
\* logged.
Push(cfg, env) ==
    IF cfg.git_repo_path # "" /\ cfg.git_remote_url # ""
    THEN <<[op |-> "push", pushed |-> env.git = "ok"]>> ELSE <<>>

\* SlackNotifier.send_message: posts when a webhook is configured.
send_message(cfg, lines) ==
    <<[op |-> "send_message", lines |-> lines,
       posted |-> cfg.slack_webhook_url # ""]>>

\* The end of generate_recommendations (main.py 253-260) after the loop
\* left the state st: the push and the notification when nothing raised.
RecommendFinish(cfg, env, db, st) ==
    LET stored == [db EXCEPT !.recommendations = st.recommendations]
    IN  IF st.raised THEN [db |-> stored, raised |-> TRUE, trace |-> st.trace]
        ELSE [db |-> stored, raised |-> FALSE,
              trace |-> st.trace \o Push(cfg, env)
                        \o IF st.lines # <<>> THEN send_message(cfg, st.lines) ELSE <<>>]

\* The stage once the jobs are analysed: out is what analyse_jobs returns.
RecommendAnalysed(cfg, env, db, out) ==
    IF out.raised THEN [db |-> db, raised |-> TRUE, trace |-> <<>>]
    ELSE RecommendFinish(cfg, env, db,
             RecommendLoop([recommendations |-> db.recommendations,
                            trace |-> InitRepo(cfg, env), lines |-> <<>>,
                            raised |-> FALSE],
                           cfg, env, out.results))

\* generate_recommendations(cfg)
generate_recommendations(cfg, env, db) ==
    RecommendAnalysed(cfg, env, db,
        analyse_jobs(LoadCustomSla(cfg, env), fetch_jobs(db.jobs_table)))

(***************************************************************************)
(* config.py, Config.from_env and Config.from_file, for three of the       *)
(* fields of Config.  The environment maps a variable name to its value,   *)
(* None when the variable is not set; the content of a configuration file  *)
(* is the sequence of its (key, value) items in the order of the file.     *)
(***************************************************************************)
Settings == {"mysql_host", "openai_api_key", "custom_sla_file"}

\* The second argument of os.getenv for each field (config.py 134-146).
EnvDefault ==
    [mysql_host |-> Str("localhost"), openai_api_key |-> Str(""),
     custom_sla_file |-> None]

\* The environment variable of a field.
Upper(field) ==
    CASE field = "mysql_host" -> "MYSQL_HOST"
      [] field = "openai_api_key" -> "OPENAI_API_KEY"
      [] field = "custom_sla_file" -> "CUSTOM_SLA_FILE"

\* str.lower() on the keys that occur in the configuration files.
Lower(key) ==
    CASE key = "MYSQL_HOST" -> "mysql_host"
      [] key = "Custom_SLA_File" -> "custom_sla_file"
      [] OTHER -> key

getenv(environ, name, default) ==
    IF environ[name] = None THEN default ELSE environ[name]

from_env(environ) ==
    [field \in Settings |-> getenv(environ, Upper(field), EnvDefault[field])]

\* The loop over data.items() (config.py 181-206) for keys other than
\* "clusters": setattr for every key that names a field.
RECURSIVE ApplyItems(_, _)
ApplyItems(cfg, items) ==
    IF items = <<>> THEN cfg
    ELSE LET key_lower == Lower(Head(items)[1])
         IN  ApplyItems(IF key_lower \in DOMAIN cfg
                        THEN [cfg EXCEPT ![key_lower] = Head(items)[2]]
                        ELSE cfg,
                        Tail(items))

\* Config.from_file(path) for a file that exists and parses to the mapping
\* data.
from_file(environ, data) == ApplyItems(from_env(environ), data)

(***************************************************************************)
(* The state machine: a list of job records and a configuration are given, *)
(* the analyzer runs on the list, and the engine is asked for the          *)
(* recommendation of one of the analysis results.                          *)
(***************************************************************************)
VARIABLES
    jobs,            \* the job records handed to analyse_jobs
    custom_sla,      \* the argument of JobAnalyzer(custom_sla)
    openai_api_key,  \* Config.openai_api_key
    pc,              \* "start", "analysed" or "recommended"
    analysis,        \* the outcome of analyse_jobs, None before the call
    rec,             \* the last call of recommend, None before the call
    jobs_table,      \* the table jobs of the database
    spark_metrics,   \* the table spark_metrics
    recommendations, \* the table recommendations
    last,            \* the last run of a stage of main.py, None before any
    runs,            \* the number of runs so far
    environ,         \* os.environ, restricted to the variables of Settings
    config_data,     \* the items of the configuration file read, <<>> before
    config           \* the Config that main() loads, None before

vars ==
    <<jobs, custom_sla, openai_api_key, pc, analysis, rec,
      jobs_table, spark_metrics, recommendations, last, runs,
      environ, config_data, config>>

\* The variables of the engine and of the pipeline.
engine_vars == <<jobs, custom_sla, openai_api_key, pc, analysis, rec>>

pipeline_vars == <<jobs_table, spark_metrics, recommendations, last, runs>>

loader_vars == <<environ, config_data, config>>

\* No variable of Settings is set.
NoEnviron == [name \in {Upper(field) : field \in Settings} |-> None]

\* The configuration is not loaded yet.
NotLoaded ==
    /\ environ = NoEnviron
    /\ config_data = <<>>
    /\ config = None

\* The longest list of job records with more than one record.
MaxJobs == 3

\* n seconds and r milliseconds, in milliseconds.
Millis(n, r) == PyMulAdd(n, 1000, r)

ClusterNames == {Str("c1"), Str("c2")}

AppIds == {None, Str(""), Str("app_1")}

AppNames == {None, Str("nightly-etl")}

\* None, zero, negative, and around every threshold of the analyzer.
ElapsedTimes ==
    {None, PyInt(0), PyInt(-1), PyInt(1), PyInt(1000), PyInt(2000),
     Millis(50, 0), Millis(1800, 0), Millis(10000, 0), Millis(50000, 0),
     Millis(3600, 0), Millis(3600, 1), Millis(7200, 0), Millis(7200, 1),
     Millis(86400, 0), Millis(86400, 1), Millis(604800, 0), Millis(604800, 1),
     Millis(2592000, 0), Millis(2592000, 1)}

MemorySeconds == {None, PyInt(0), PyInt(16384), PyInt(460800)}

VcoreSeconds == {None, PyInt(0), PyInt(4), PyInt(5), PyInt(90)}

\* The records of the lists of one record.
JobRecords ==
    [cluster_name : {Str("c1")}, id : AppIds, name : AppNames,
     elapsedTime : ElapsedTimes, memorySeconds : MemorySeconds,
     vcoreSeconds : VcoreSeconds]

\* The records of the lists with more than one record: two retained records
\* of different clusters, one without identifier, one of duration zero.
ListJob(cluster_name, id, elapsed) ==
    [cluster_name |-> cluster_name, id |-> id, name |-> Str("nightly-etl"),
     elapsedTime |-> elapsed, memorySeconds |-> PyInt(460800),
     vcoreSeconds |-> PyInt(90)]

SeqJobRecords ==
    {ListJob(Str("c1"), Str("app_1"), Millis(1800, 0)),
     ListJob(Str("c2"), Str("app_1"), Millis(1800, 0)),
     ListJob(Str("c1"), None, Millis(1800, 0)),
     ListJob(Str("c2"), Str("app_1"), PyInt(0))}

JobLists ==
    {<<>>} \cup {<<j>> : j \in JobRecords}
           \cup UNION {[1..n -> SeqJobRecords] : n \in 2..MaxJobs}

\* No table, and tables with entries keyed by id and by name; an entry may
\* carry a category, only a threshold, or nothing.
CustomSlaTables ==
    {None,
     "nightly-etl" :> [category |-> "custom"],
     ("app_1" :> [category |-> "critical"]) @@ ("nightly-etl" :> [category |-> "custom"]),
     ("app_1" :> <<>>) @@ ("nightly-etl" :> [category |-> "custom"]),
     "app_1" :> [threshold_ms |-> 7200000],
     "nightly-etl" :> <<>>}

ReplyGood ==
    <<"e", "=", "4", ",", " ", "c", "=", "2", ",", " ",
      "m", "=", "2", "0", "4", "8", "M", "B">>

ReplyZero ==
    <<"e", "=", "0", ",", " ", "c", "=", "0", ",", " ",
      "m", "=", "2", "5", "6", "M", "B">>

ReplyFloats == <<"3", ".", "5", " ", "1", ".", " ", ".", "7", "5", " ", "9">>

ReplyTwo == <<"u", "s", "e", " ", "2", "x", "1">>

ReplyVersion == <<"v", "1", ".", "2", ".", "3", " ", "8">>

\* What the environment does when the engine turns to the model service.
Services ==
    {[kind |-> "import_error"], [kind |-> "error"],
     [kind |-> "reply", content |-> None]}
    \cup {[kind |-> "reply", content |-> [text |-> m]] :
            m \in {<<>>, ReplyGood, ReplyZero, ReplyFloats, ReplyTwo, ReplyVersion}}

Init ==
    /\ jobs \in JobLists
    /\ custom_sla \in CustomSlaTables
    /\ openai_api_key \in {"", "sk-key"}
    /\ pc = "start"
    /\ analysis = None
    /\ rec = None
    /\ jobs_table = EmptyTable
    /\ spark_metrics = <<>>
    /\ recommendations = EmptyTable
    /\ last = None
    /\ runs = 0
    /\ NotLoaded

\* analyzer.analyse_jobs(jobs)
AnalyseJobs ==
    /\ pc = "start"
    /\ analysis' = analyse_jobs(custom_sla, jobs)
    /\ pc' = "analysed"
    /\ UNCHANGED <<jobs, custom_sla, openai_api_key, rec>>
    /\ UNCHANGED pipeline_vars
    /\ UNCHANGED loader_vars

\* engine.recommend(res) for one analysis result.  Without an API key the
\* environment is not consulted.
Recommend ==
    /\ pc = "analysed"
    /\ ~analysis.raised
    /\ \E i \in 1..Len(analysis.results) :
         \E service \in IF openai_api_key = "" THEN {[kind |-> "unused"]}
                        ELSE Services :
            rec' = [input   |-> analysis.results[i],
                    index   |-> i,
                    service |-> service,
                    out     |-> recommend(openai_api_key, service,
                                          analysis.results[i])]
    /\ pc' = "recommended"
    /\ UNCHANGED <<jobs, custom_sla, openai_api_key, analysis>>
    /\ UNCHANGED pipeline_vars
    /\ UNCHANGED loader_vars

Next == AnalyseJobs \/ Recommend

Spec == Init /\ [][Next]_vars

(***************************************************************************)
(* The pipeline: the database outlives the runs; each run is one call of   *)
(* main() with the Config it loads, in mode profile, analyse or recommend, *)
(* against what the collaborators answer during that run.                  *)
(***************************************************************************)
\* The most runs in a row.
MaxRuns == 2

\* Config() with the defaults of config.py.
DefaultConfig ==
    [clusters |-> <<>>, custom_sla_file |-> "", openai_api_key |-> "",
     git_repo_path |-> "", git_remote_url |-> "", slack_webhook_url |-> ""]

YarnApp(id, name, elapsed, memory, vcores) ==
    [id |-> id, name |-> name, elapsedTime |-> elapsed,
     memorySeconds |-> memory, vcoreSeconds |-> vcores]

\* avg_cpu 0.05, avg_memory 256.0
App1 == YarnApp(Str("app_1"), Str("nightly-etl"), Millis(1800, 0), PyInt(460800), PyInt(90))

\* The same application seen later: avg_cpu 5.0, avg_memory 20000.0
App1Later == YarnApp(Str("app_1"), Str("nightly-etl"), Millis(7200, 0), PyMulAdd(7200, 20000, 0), PyInt(36000))

\* avg_cpu 9.0, no memory counter
App2 == YarnApp(Str("app_2"), None, Millis(10, 0), None, PyInt(90))

\* Not started: skipped by the analyzer.
App3 == YarnApp(Str("app_3"), Str("adhoc"), PyInt(0), PyInt(0), PyInt(0))

\* An application without identifier.
AppNoId == YarnApp(Str(""), None, Millis(50, 0), PyInt(16384), PyInt(5))

Failed == [kind |-> "error"]

Apps(apps) == [kind |-> "ok", apps |-> apps]

Executors(executors) == [kind |-> "ok", executors |-> executors]

YarnReplies == {Failed, Apps(<<App2, App1Later, App3, AppNoId>>)}

Ex1 == [id |-> Str("1"), totalDuration |-> 5000, maxMemory |-> 1024]

Ex2 == [executorId |-> Str("2"), hostPort |-> Str("host:1"), memoryUsed |-> 10, totalGCTime |-> 3]

ExDriver == [hostPort |-> Str("host:0")]

PipelineAppIds == {Str("app_1"), Str("app_2"), Str("app_3")}

SparkReplies ==
    {(Str("app_1") :> Executors(<<Ex1>>)) @@ (Str("app_2") :> Executors(<<>>))
        @@ (Str("app_3") :> Executors(<<ExDriver>>)),
     (Str("app_1") :> Executors(<<Ex1, Ex2>>)) @@ (Str("app_2") :> Failed)
        @@ (Str("app_3") :> Executors(<<ExDriver, Ex2>>))}

\* No cluster configured, and two clusters of which either may fail.
ClusterLists == {<<>>, <<Str("c1"), Str("c2")>>}

ProfileConfigs == {[DefaultConfig EXCEPT !.clusters = c] : c \in ClusterLists}

\* What YARN and the history server answer during a run of profile_jobs.
ProfileEnvs(cfg) ==
    LET names == {ClustersOf(cfg)[i] : i \in 1..Len(ClustersOf(cfg))}
    IN  [yarn : [names -> YarnReplies], spark : SparkReplies]

AnalyseConfigs == {[DefaultConfig EXCEPT !.custom_sla_file = f] : f \in {"", "sla.json"}}

\* What reading the custom SLA file gives: an exception (the file is
\* missing, is not valid JSON or YAML, or has another suffix), a table, or
\* a valid document of another shape, {"app_1": "critical"}.
SlaFiles(cfg) ==
    IF cfg.custom_sla_file = "" THEN {[kind |-> "unused"]}
    ELSE {[kind |-> "error"],
          [kind |-> "ok", table |-> "app_1" :> [category |-> "critical"]],
          [kind |-> "malformed", table |-> "app_1" :> Str("critical")]}

AnalyseEnvs(cfg) == [sla_file : SlaFiles(cfg)]

\* The defaults with a Slack webhook.
SlackConfig == [DefaultConfig EXCEPT !.slack_webhook_url = "https://hooks.example/T0"]

\* The same with a repository, a remote and a custom SLA file.
FullConfig ==
    [SlackConfig EXCEPT !.custom_sla_file = "sla.json", !.git_repo_path = "/repo",
                        !.git_remote_url = "git@host:recs.git"]

\* Without and with each of the optional settings.
RecommendConfigs ==
    {DefaultConfig, SlackConfig, FullConfig,
     [SlackConfig EXCEPT !.custom_sla_file = "sla.json"],
     [SlackConfig EXCEPT !.git_repo_path = "/repo"],
     [SlackConfig EXCEPT !.openai_api_key = "sk-key"],
     [FullConfig EXCEPT !.openai_api_key = "sk-key"]}

\* What the model service does during a run of generate_recommendations.
ServiceReplies(cfg) ==
    IF cfg.openai_api_key = "" THEN {[kind |-> "unused"]}
    ELSE {[kind |-> "error"],
          [kind |-> "reply", content |-> [text |-> ReplyGood]]}

\* What the repository does during a run of generate_recommendations.
GitReplies(cfg) ==
    IF cfg.git_repo_path = "" THEN {"unused"}
    ELSE {"ok", "nonzero", "missing", "write_error"}

RecommendEnvs(cfg) ==
    [sla_file : SlaFiles(cfg), service : ServiceReplies(cfg), git : GitReplies(cfg)]

EmptyDb ==
    [jobs_table |-> EmptyTable, spark_metrics |-> <<>>, recommendations |-> EmptyTable]

\* The database after profile runs on two clusters.
ProfiledDb ==
    profile_jobs([DefaultConfig EXCEPT !.clusters = <<Str("c1"), Str("c2")>>],
                 [yarn |-> (Str("c1") :> Apps(<<App1, App3>>)) @@ (Str("c2") :> Apps(<<App1>>)),
                  spark |-> [id \in PipelineAppIds |-> Executors(<<Ex1>>)]],
                 EmptyDb).db

\* The same with rows left in recommendations by earlier runs of
\* recommend: one of a job that was analysable then, one analysed under
\* another custom SLA table.
StaleRow(category, r) ==
    [category |-> category, avg_cpu |-> Q(1, 2), avg_memory |-> Q(300, 1),
     status |-> "normal", recommended_executors |-> IF r = None THEN None ELSE r.executors,
     recommended_memory |-> IF r = None THEN None ELSE r.memory,
     recommended_cores |-> IF r = None THEN None ELSE r.cores,
     notes |-> IF r = None THEN <<>> ELSE r.note]

StaleDb ==
    [ProfiledDb EXCEPT
        !.recommendations =
            (<<Str("c1"), Str("app_3")>> :>
                    StaleRow("hourly", [executors |-> 2, memory |-> Q(1024, 1),
                                        cores |-> 1, note |-> <<"stale">>]))
            @@ (<<Str("c2"), Str("app_1")>> :>
                    StaleRow("critical", [executors |-> 4, memory |-> Q(2048, 1),
                                          cores |-> 2, note |-> ReplyGood]))]

InitialDbs == {EmptyDb, StaleDb}

Db ==
    [jobs_table |-> jobs_table, spark_metrics |-> spark_metrics,
     recommendations |-> recommendations]

PipelineInit ==
    /\ jobs = <<>>
    /\ custom_sla = None
    /\ openai_api_key = ""
    /\ pc = "pipeline"
    /\ analysis = None
    /\ rec = None
    /\ \E db \in InitialDbs :
          /\ jobs_table = db.jobs_table
          /\ spark_metrics = db.spark_metrics
          /\ recommendations = db.recommendations
    /\ last = None
    /\ runs = 0
    /\ NotLoaded

\* The record of one run of a stage with result out.
RunRecord(stage, cfg, env, out) ==
    [stage |-> stage, cfg |-> cfg, env |-> env, before |-> Db,
     raised |-> out.raised, trace |-> out.trace]

\* main(), mode "profile"
ProfileJobs ==
    /\ runs < MaxRuns
    /\ pc = "pipeline"
    /\ \E cfg \in ProfileConfigs : \E env \in ProfileEnvs(cfg) :
          \E out \in {profile_jobs(cfg, env, Db)} :
              /\ jobs_table' = out.db.jobs_table
              /\ spark_metrics' = out.db.spark_metrics
              /\ recommendations' = out.db.recommendations
              /\ last' = RunRecord("profile", cfg, env, out)
    /\ runs' = runs + 1
    /\ UNCHANGED engine_vars
    /\ UNCHANGED loader_vars

\* main(), mode "analyse"
AnalyseStage ==
    /\ runs < MaxRuns
    /\ pc = "pipeline"
    /\ \E cfg \in AnalyseConfigs : \E env \in AnalyseEnvs(cfg) :
          \E out \in {main_analyse_jobs(cfg, env, Db)} :
              /\ jobs_table' = out.db.jobs_table
              /\ spark_metrics' = out.db.spark_metrics
              /\ recommendations' = out.db.recommendations
              /\ last' = RunRecord("analyse", cfg, env, out)
    /\ runs' = runs + 1
    /\ UNCHANGED engine_vars
    /\ UNCHANGED loader_vars

\* main(), mode "recommend"
GenerateRecommendations ==
    /\ runs < MaxRuns
    /\ pc = "pipeline"
    /\ \E cfg \in RecommendConfigs : \E env \in RecommendEnvs(cfg) :
          \E out \in {generate_recommendations(cfg, env, Db)} :
              /\ jobs_table' = out.db.jobs_table
              /\ spark_metrics' = out.db.spark_metrics
              /\ recommendations' = out.db.recommendations
              /\ last' = RunRecord("recommend", cfg, env, out)
    /\ runs' = runs + 1
    /\ UNCHANGED engine_vars
    /\ UNCHANGED loader_vars

PipelineNext == ProfileJobs \/ AnalyseStage \/ GenerateRecommendations

Pipeline == PipelineInit /\ [][PipelineNext]_vars

(***************************************************************************)
(* Properties of the analyzer.  They are stated on the input list and on   *)
(* the custom SLA table, independently of the operators above.             *)
(***************************************************************************)
Analysed == pc # "start"

\* A record with a job identifier and a present, strictly positive duration.
Retained(job) ==
    /\ job.id # None /\ job.id.str # ""
    /\ job.elapsedTime # None /\ job.elapsedTime.sign = 1

RetainedJobs == SelectSeq(jobs, Retained)

\* The i-th retained record has a result, at the same position.
HasResult(i) == ~analysis.raised /\ i <= Len(analysis.results)

Result(i) == analysis.results[i]

SlaTable == IF custom_sla = None THEN <<>> ELSE custom_sla

Keyed(k) == k # None /\ k.str \in DOMAIN SlaTable

\* The entry that a job matches: by id first, then by name.  An entry
\* without content counts as no match.
MatchedEntry(job) ==
    IF Keyed(job.id) THEN SlaTable[job.id.str] ELSE SlaTable[job.name.str]

HasMatch(job) ==
    (Keyed(job.id) \/ Keyed(job.name)) /\ DOMAIN MatchedEntry(job) # {}

Gt(d, limit) == ~PyLeq(d, limit)

\* The tier of a duration d in milliseconds, as a table of ranges.
TierOf(d) ==
    CASE PyLeq(d, Millis(3600, 0)) -> "hourly"
      [] Gt(d, Millis(3600, 0)) /\ PyLeq(d, Millis(7200, 0)) -> "two_hours"
      [] Gt(d, Millis(7200, 0)) /\ PyLeq(d, Millis(86400, 0)) -> "daily"
      [] Gt(d, Millis(86400, 0)) /\ PyLeq(d, Millis(604800, 0)) -> "weekly"
      [] Gt(d, Millis(604800, 0)) -> "monthly"

\* C1: every retained job that matches no custom SLA entry gets the category
\* of its elapsed duration alone: hourly up to 3,600,000 ms, two_hours up to
\* 7,200,000, daily up to 86,400,000, weekly up to 604,800,000 and monthly
\* above, with no upper limit; a boundary value belongs to the lower tier.
C1_ThresholdCategory ==
    Analysed =>
        \A i \in 1..Len(RetainedJobs) :
            ~HasMatch(RetainedJobs[i]) =>
                /\ HasResult(i)
                /\ Result(i).category = TierOf(RetainedJobs[i].elapsedTime)

\* A job of 2,592,000,001 ms without custom entry is monthly, and one of
\* exactly 3,600,000 ms is hourly.
C1_Witness ==
    /\ Analysed /\ Len(RetainedJobs) = 1 /\ HasResult(1)
    /\ ~HasMatch(RetainedJobs[1])
    /\ RetainedJobs[1].elapsedTime = Millis(2592000, 1)
    /\ Result(1).category = "monthly"

\* C2: when the entry a job matches (by id, else by name) declares a
\* category, the job gets that category, whatever its elapsed duration.
C2_CustomCategoryWins ==
    Analysed =>
        \A i \in 1..Len(RetainedJobs) :
            LET job == RetainedJobs[i]
            IN  (HasMatch(job) /\ "category" \in DOMAIN MatchedEntry(job)) =>
                    /\ HasResult(i)
                    /\ Result(i).category = MatchedEntry(job).category

\* The job named nightly-etl with 50,000,000 ms elapsed is "custom".
C2_Witness ==
    /\ Analysed /\ Len(RetainedJobs) = 1 /\ HasResult(1)
    /\ ~Keyed(RetainedJobs[1].id)
    /\ RetainedJobs[1].name = Str("nightly-etl")
    /\ RetainedJobs[1].elapsedTime = Millis(50000, 0)
    /\ Result(1).category = "custom"
    /\ TierOf(RetainedJobs[1].elapsedTime) = "daily"

\* Both an entry keyed by the id and another keyed by the name declare a
\* category, and the two categories differ.
BothDeclare(job) ==
    /\ Keyed(job.id) /\ Keyed(job.name) /\ job.id # job.name
    /\ "category" \in DOMAIN SlaTable[job.id.str]
    /\ "category" \in DOMAIN SlaTable[job.name.str]
    /\ SlaTable[job.id.str].category # SlaTable[job.name.str].category

\* C3: when one entry is keyed by the id of a job and a different one by its
\* name, the job gets the category of the entry keyed by the id.
C3_IdBeforeName ==
    Analysed =>
        \A i \in 1..Len(RetainedJobs) :
            LET job == RetainedJobs[i]
            IN  BothDeclare(job) =>
                    /\ HasResult(i)
                    /\ Result(i).category = SlaTable[job.id.str].category
                    /\ Result(i).category # SlaTable[job.name.str].category

C3_Witness ==
    /\ Analysed /\ Len(RetainedJobs) = 1 /\ HasResult(1)
    /\ BothDeclare(RetainedJobs[1])
    /\ Result(1).category = "critical"

\* counter / (elapsed_ms / 1000) as a fraction of integers.
RateOf(counter, elapsed) ==
    [num |-> BigMul(counter.mag, BigFromInt(1000)), den |-> elapsed.mag]

AverageIs(avg, counter, elapsed) ==
    /\ (avg = None) <=> (counter = None)
    /\ counter # None => QEq(avg, RateOf(counter, elapsed))
    /\ (counter # None /\ counter.sign = 0) => (avg # None /\ avg.num = <<>>)

\* C4: an average is None exactly when its counter is absent; otherwise it
\* is counter / (elapsed_ms / 1000), and 0 for a counter of zero.
C4_Averages ==
    Analysed =>
        \A i \in 1..Len(RetainedJobs) :
            LET job == RetainedJobs[i]
            IN  /\ HasResult(i)
                /\ AverageIs(Result(i).avg_cpu, job.vcoreSeconds, job.elapsedTime)
                /\ AverageIs(Result(i).avg_memory, job.memorySeconds, job.elapsedTime)

\* elapsed 1,800,000 ms, memory-time 460,800 and cpu-time 90 give the
\* averages 256 and 0.05.
C4_Witness ==
    /\ Analysed /\ Len(RetainedJobs) = 1 /\ HasResult(1)
    /\ RetainedJobs[1].elapsedTime = Millis(1800, 0)
    /\ RetainedJobs[1].memorySeconds = PyInt(460800)
    /\ RetainedJobs[1].vcoreSeconds = PyInt(90)
    /\ QEq(Result(1).avg_memory, Q(256, 1))
    /\ QEq(Result(1).avg_cpu, Q(5, 100))

\* C5: analyse_jobs does not raise, and its results are those of the
\* retained records, one each, in the order of the input.
C5_RetainedInOrder ==
    Analysed =>
        /\ ~analysis.raised
        /\ Len(analysis.results) = Len(RetainedJobs)
        /\ \A i \in 1..Len(RetainedJobs) :
              /\ Result(i).cluster_name = RetainedJobs[i].cluster_name
              /\ Result(i).app_id = RetainedJobs[i].id

\* A record that is not retained is dropped between two retained records
\* of different clusters, which keep their order.
C5_Witness ==
    /\ Analysed /\ Len(jobs) = 3 /\ Len(RetainedJobs) = 2
    /\ ~Retained(jobs[2])
    /\ jobs[1].cluster_name = Str("c2") /\ jobs[3].cluster_name = Str("c1")
    /\ ~analysis.raised /\ Len(analysis.results) = 2
    /\ Result(1).cluster_name = Str("c2") /\ Result(2).cluster_name = Str("c1")

\* The four status rules, on the averages of a result.
Rule1(r) == r.avg_cpu # None /\ BigLess(BigMul(r.avg_cpu.num, <<10>>), r.avg_cpu.den)

Rule2(r) ==
    r.avg_memory # None /\ BigLess(r.avg_memory.num, BigMul(<<256>>, r.avg_memory.den))

Rule3(r) == r.avg_cpu # None /\ BigLess(BigMul(<<4>>, r.avg_cpu.den), r.avg_cpu.num)

Rule4(r) ==
    r.avg_memory # None /\ BigLess(BigMul(<<6384, 1>>, r.avg_memory.den), r.avg_memory.num)

LastFired(r) ==
    IF Rule4(r) THEN 4 ELSE IF Rule3(r) THEN 3 ELSE IF Rule2(r) THEN 2
    ELSE IF Rule1(r) THEN 1 ELSE 0

FirstFired(r) ==
    IF Rule1(r) THEN 1 ELSE IF Rule2(r) THEN 2 ELSE IF Rule3(r) THEN 3
    ELSE IF Rule4(r) THEN 4 ELSE 0

\* The status a rule sets (the source spells the labels "underutilised" and
\* "overutilised"); rule 0 stands for no rule.
StatusOfRule(k) ==
    IF k \in {1, 2} THEN "underutilised"
    ELSE IF k \in {3, 4} THEN "overutilised"
    ELSE "normal"

NoteOfRule(k) ==
    CASE k = 0 -> <<>>
      [] k = 1 -> <<"Low CPU usage; consider reducing executors or cores">>
      [] k = 2 -> <<"Low memory usage; consider reducing executor memory">>
      [] k = 3 -> <<"High CPU usage; job may be starved or need more cores">>
      [] k = 4 -> <<"High memory usage; job may require additional memory">>

Results == IF Analysed /\ ~analysis.raised THEN analysis.results ELSE <<>>

\* C6: the status of a result is the status of the last of the four rules
\* (low CPU, low memory, high CPU, high memory) that fires, and it is normal
\* exactly when none fires.
C6_StatusLastRule ==
    \A i \in 1..Len(Results) :
        LET r == Results[i]
        IN  /\ r.status = StatusOfRule(LastFired(r))
            /\ (r.status = "normal") <=> (LastFired(r) = 0)

\* Low memory and high CPU fire together: the later rule decides.
C6_Witness ==
    \E i \in 1..Len(Results) :
        /\ Rule2(Results[i]) /\ Rule3(Results[i]) /\ ~Rule4(Results[i])
        /\ Results[i].status = "overutilised"

\* C7: with a matching custom SLA entry the note is the custom SLA note;
\* otherwise it is the note of the first rule that fires, whatever the final
\* status, and it is empty when no rule fires.
C7_NoteFirstRule ==
    Analysed =>
        \A i \in 1..Len(RetainedJobs) :
            /\ HasResult(i)
            /\ Result(i).notes =
                 IF HasMatch(RetainedJobs[i])
                 THEN <<"Custom SLA applied (category=", Result(i).category, ")">>
                 ELSE NoteOfRule(FirstFired(Result(i)))

\* Low CPU and high memory without custom entry: overutilised, with the
\* note of the low CPU rule.
C7_Witness ==
    /\ Analysed /\ Len(RetainedJobs) = 1 /\ HasResult(1)
    /\ ~HasMatch(RetainedJobs[1])
    /\ Rule1(Result(1)) /\ Rule4(Result(1))
    /\ Result(1).status = "overutilised"
    /\ Result(1).notes = NoteOfRule(1)

(***************************************************************************)
(* Properties of the recommendation engine.                                *)
(***************************************************************************)
Recommended == pc = "recommended"

\* recommend returned a recommendation (it did not raise).
RecReturned == Recommended /\ rec.out.kind = "return"

\* The call took the heuristic path at once: no API key, or no openai
\* package.
HeuristicPath ==
    Recommended /\ (openai_api_key = "" \/ rec.service.kind = "import_error")

\* C8: every recommendation that recommend returns has executors >= 1,
\* memory_mb >= 512 and cores >= 1.
C8_RecommendationBounds ==
    RecReturned =>
        /\ rec.out.rec.executors >= 1
        /\ ~QLess(rec.out.rec.memory, Q(512, 1))
        /\ rec.out.rec.cores >= 1

Max(a, b) == IF a >= b THEN a ELSE b

\* C9: on the heuristic path, when both averages are known (zero included),
\* executors = max(1, round(avg_cpu)), cores = 1 and
\* memory_mb = max(512, avg_memory * 1.5).
C9_HeuristicFormula ==
    (HeuristicPath /\ rec.input.avg_cpu # None /\ rec.input.avg_memory # None) =>
        /\ rec.out.kind = "return"
        /\ rec.out.rec.executors = Max(1, QRound(rec.input.avg_cpu))
        /\ rec.out.rec.cores = 1
        /\ QEq(rec.out.rec.memory,
               QMax(Q(512, 1), QMul(rec.input.avg_memory, Q(15, 10))))

\* C10: on the heuristic path, when avg_cpu or avg_memory is None, the
\* recommendation is executors = 2, memory_mb = 1024.0, cores = 1, with the
\* note that flags missing metrics.
C10_DefaultWhenMissing ==
    (HeuristicPath /\ (rec.input.avg_cpu = None \/ rec.input.avg_memory = None)) =>
        /\ rec.out.kind = "return"
        /\ rec.out.rec.executors = 2
        /\ rec.out.rec.memory = Q(1024, 1)
        /\ rec.out.rec.cores = 1
        /\ rec.out.rec.note = <<"Default recommendation due to missing metrics">>

\* The CPU average is known and above 1, only the memory average is missing.
C10_Witness ==
    /\ HeuristicPath
    /\ rec.input.avg_memory = None
    /\ rec.input.avg_cpu # None /\ QLess(Q(1, 1), rec.input.avg_cpu)
    /\ rec.out.kind = "return" /\ rec.out.rec.executors = 2

\* C11: the heuristic recommendation has executors >= 1, memory_mb >= 512 and
\* cores >= 1 for every non-negative or missing pair of averages, and it is
\* exactly (2, 1024.0, 1) when both averages are missing.
C11_HeuristicBounds ==
    HeuristicPath =>
        /\ rec.out.kind = "return"
        /\ rec.out.rec.executors >= 1
        /\ ~QLess(rec.out.rec.memory, Q(512, 1))
        /\ rec.out.rec.cores >= 1
        /\ (rec.input.avg_cpu = None /\ rec.input.avg_memory = None) =>
               /\ rec.out.rec.executors = 2
               /\ rec.out.rec.memory = Q(1024, 1)
               /\ rec.out.rec.cores = 1

\* Both averages are known and positive, the CPU average rounds to zero and
\* one and a half times the memory average is below 512.
C11_Witness ==
    /\ HeuristicPath
    /\ rec.input.avg_cpu # None /\ QTruthy(rec.input.avg_cpu)
    /\ QRound(rec.input.avg_cpu) = 0
    /\ rec.input.avg_memory # None /\ QTruthy(rec.input.avg_memory)
    /\ QLess(QMul(rec.input.avg_memory, Q(3, 2)), Q(512, 1))
    /\ rec.out.rec.executors = 1
    /\ rec.out.rec.memory = Q(512, 1)

\* C12: recommend returns a recommendation for every AnalysisResult, every
\* configuration and every behaviour of the model service; it never raises.
C12_RecommendTotal == Recommended => rec.out.kind = "return"

\* The model-assisted path did not yield a reply: no credential, no openai
\* package, the call or the indexing of its response raised, or the response
\* carried no text.
ModelCallFails ==
    /\ Recommended
    /\ \/ openai_api_key = ""
       \/ rec.service.kind \in {"import_error", "error"}
       \/ rec.service.kind = "reply" /\ rec.service.content = None

\* The recommendation spelled out from the averages of the result: the
\* default when an average is missing or zero, else the clamped values.
HeuristicOutput(r) ==
    IF r.avg_cpu = None \/ r.avg_memory = None
       \/ r.avg_cpu.num = <<>> \/ r.avg_memory.num = <<>>
    THEN [executors |-> 2, memory |-> Q(1024, 1), cores |-> 1,
          note |-> <<"Default recommendation due to missing metrics">>]
    ELSE [executors |-> Max(1, QRound(r.avg_cpu)),
          memory    |-> IF QLess(QMul(r.avg_memory, Q(3, 2)), Q(512, 1))
                        THEN Q(512, 1) ELSE QMul(r.avg_memory, Q(3, 2)),
          cores     |-> 1,
          note      |-> <<"Heuristic recommendation based on average usage">>]

\* C13: whenever the model call fails (credential missing, library
\* unavailable, transport error, malformed response), recommend returns
\* exactly the heuristic recommendation of the same AnalysisResult.
C13_FallbackIsHeuristic ==
    ModelCallFails =>
        /\ rec.out.kind = "return"
        /\ rec.out.rec = HeuristicOutput(rec.input)

\* The model was called and replied with a text.
ModelReplied ==
    /\ Recommended
    /\ openai_api_key # ""
    /\ rec.service.kind = "reply" /\ rec.service.content # None
    /\ rec.input.avg_cpu # None /\ rec.input.avg_memory # None

ReplyTokens == MapFloat(FindAll(rec.service.content.text))

\* C14: when the model replies with text, the numeric tokens are taken in
\* order of appearance; with three or more, the first gives the executors,
\* the second the cores and the third the memory in MB (later tokens are
\* ignored); with fewer than three the result is the heuristic
\* recommendation of the same AnalysisResult.
C14_ParserOrder ==
    ModelReplied =>
        /\ rec.out.kind = "return"
        /\ IF Len(ReplyTokens) >= 3
           THEN /\ rec.out.rec.executors = QInt(ReplyTokens[1])
                /\ rec.out.rec.cores = QInt(ReplyTokens[2])
                /\ rec.out.rec.memory = ReplyTokens[3]
           ELSE rec.out.rec = HeuristicOutput(rec.input)

\* A reply of four tokens, "3.5 1. .75 9": executors 3, cores 1, memory 75.
C14_Witness ==
    /\ ModelReplied
    /\ rec.service.content.text = ReplyFloats
    /\ Len(ReplyTokens) = 4
    /\ rec.out.rec.executors = 3
    /\ rec.out.rec.cores = 1
    /\ QEq(rec.out.rec.memory, Q(75, 1))

(***************************************************************************)
(* Properties of the stages of main.py, stated on the record of the last   *)
(* run and on the tables before and after it.                              *)
(***************************************************************************)
ProfileRan == last # None /\ last.stage = "profile"

AnalyseRan == last # None /\ last.stage = "analyse"

RecommendRan == last # None /\ last.stage = "recommend"

\* The rows of a keyed table that belong to a cluster.
RowsOf(table, cluster_name) ==
    [key \in {k \in DOMAIN table : k[1] = cluster_name} |-> table[key]]

\* The rows of spark_metrics that belong to a cluster.
MetricsOf(rows, cluster_name) ==
    LET OfCluster(row) == row.cluster_name = cluster_name
    IN  SelectSeq(rows, OfCluster)

\* The run had two clusters, the fetch of failing failed and the fetch of
\* succeeding returned a list.
OneFetchFailed(failing, succeeding) ==
    /\ ProfileRan
    /\ Len(last.cfg.clusters) = 2
    /\ {failing, succeeding} = {last.cfg.clusters[1], last.cfg.clusters[2]}
    /\ failing # succeeding
    /\ last.env.yarn[failing].kind = "error"
    /\ last.env.yarn[succeeding].kind = "ok"

\* The job row of a cluster holds exactly the fields of the fetched record.
StoredAsFetched(cluster_name, app) ==
    /\ <<cluster_name, app.id>> \in DOMAIN jobs_table
    /\ jobs_table[<<cluster_name, app.id>>] =
           [name |-> app.name, elapsed_time |-> app.elapsedTime,
            memory_seconds |-> app.memorySeconds,
            vcore_seconds |-> app.vcoreSeconds]

\* C15: with two clusters of which one fetch fails, profile_jobs completes
\* without raising, every job fetched from the other cluster is stored with
\* its fetched fields, whichever cluster comes first, and no row of the
\* failing cluster is inserted or modified.
C15_PartialClusterFailure ==
    \A failing, succeeding \in ClusterNames :
        OneFetchFailed(failing, succeeding) =>
            /\ ~last.raised
            /\ \A i \in 1..Len(last.env.yarn[succeeding].apps) :
                   StoredAsFetched(succeeding, last.env.yarn[succeeding].apps[i])
            /\ RowsOf(jobs_table, failing) = RowsOf(last.before.jobs_table, failing)
            /\ MetricsOf(spark_metrics, failing)
                   = MetricsOf(last.before.spark_metrics, failing)
            /\ RowsOf(recommendations, failing)
                   = RowsOf(last.before.recommendations, failing)

\* The failing cluster comes first and had rows; a row of the second
\* cluster is updated and a new one is inserted.
C15_Witness ==
    /\ OneFetchFailed(Str("c1"), Str("c2"))
    /\ last.cfg.clusters[1] = Str("c1")
    /\ RowsOf(last.before.jobs_table, Str("c1")) # EmptyTable
    /\ last.before.jobs_table[<<Str("c2"), Str("app_1")>>].elapsed_time = Millis(1800, 0)
    /\ jobs_table[<<Str("c2"), Str("app_1")>>].elapsed_time = Millis(7200, 0)
    /\ <<Str("c2"), Str("app_3")>> \notin DOMAIN last.before.jobs_table
    /\ <<Str("c2"), Str("app_3")>> \in DOMAIN jobs_table

\* C16: a second run of profile_jobs with the same configuration and the
\* same answers of the collaborators leaves the job rows and the
\* executor-metric rows as the first run left them.
C16_ProfileIdempotent ==
    [][(/\ ProfileRan
        /\ runs' = runs + 1
        /\ last'.stage = "profile"
        /\ last'.cfg = last.cfg
        /\ last'.env = last.env)
       => (jobs_table' = jobs_table /\ spark_metrics' = spark_metrics)]_vars

\* The job record of a stored row.
StoredJob(table, key) ==
    [cluster_name |-> key[1], id |-> key[2], name |-> table[key].name,
     elapsedTime |-> table[key].elapsed_time,
     memorySeconds |-> table[key].memory_seconds,
     vcoreSeconds |-> table[key].vcore_seconds]

\* The stored jobs the analyzer retains: an identifier and a positive
\* elapsed time.
AnalysableKeys(table) ==
    {key \in DOMAIN table :
        /\ key[2].str # ""
        /\ table[key].elapsed_time # None
        /\ Gt(table[key].elapsed_time, PyInt(0))}

\* The AnalysisResult of a stored job under the custom SLA table of the run.
\* The custom SLA table of the last run: none without a file or when the
\* file could not be read.
SlaOfRun ==
    IF last.cfg.custom_sla_file # "" /\ last.env.sla_file.kind = "ok"
    THEN last.env.sla_file.table ELSE None

\* The AnalysisResult of a stored job under the custom SLA table of the run.
ResultOf(table, key) ==
    AnalyseJob(CustomSlaOf(SlaOfRun), StoredJob(table, key)).res

\* C17: after analyse_jobs(cfg) completes, every stored job the analyzer
\* retains has the recommendation row of its key with the category, the
\* averages, the status and the notes of its AnalysisResult and with
\* executors, memory and cores unset; the rows of the other keys are as
\* they were.
C17_AnalyseStageRows ==
    (AnalyseRan /\ ~last.raised) =>
        /\ \A key \in AnalysableKeys(jobs_table) :
              /\ key \in DOMAIN recommendations
              /\ recommendations[key] =
                     [category   |-> ResultOf(jobs_table, key).category,
                      avg_cpu    |-> ResultOf(jobs_table, key).avg_cpu,
                      avg_memory |-> ResultOf(jobs_table, key).avg_memory,
                      status     |-> ResultOf(jobs_table, key).status,
                      recommended_executors |-> None,
                      recommended_memory    |-> None,
                      recommended_cores     |-> None,
                      notes      |-> ResultOf(jobs_table, key).notes]
        /\ \A key \in (DOMAIN recommendations \cup DOMAIN last.before.recommendations)
                          \ AnalysableKeys(jobs_table) :
              /\ key \in DOMAIN recommendations
              /\ key \in DOMAIN last.before.recommendations
              /\ recommendations[key] = last.before.recommendations[key]

\* A row with a recommendation is replaced by the bare analysis, under a
\* custom SLA table, and the row of a skipped job stays.
C17_Witness ==
    /\ AnalyseRan /\ ~last.raised
    /\ SlaOfRun # None
    /\ <<Str("c2"), Str("app_1")>> \in AnalysableKeys(jobs_table)
    /\ <<Str("c2"), Str("app_1")>> \in DOMAIN last.before.recommendations
    /\ last.before.recommendations[<<Str("c2"), Str("app_1")>>].recommended_executors = 4
    /\ recommendations[<<Str("c2"), Str("app_1")>>].recommended_executors = None
    /\ recommendations[<<Str("c2"), Str("app_1")>>].category = "critical"
    /\ <<Str("c1"), Str("app_3")>> \in DOMAIN recommendations
    /\ <<Str("c1"), Str("app_1")>> \in DOMAIN recommendations
    /\ <<Str("c1"), Str("app_1")>> \notin DOMAIN last.before.recommendations

\* The recommendations table that the last run, a run of recommend, would
\* have left had analyse_jobs(cfg) run first with the same configuration.
AfterAnalyseAndRecommend ==
    generate_recommendations(
        last.cfg, last.env,
        main_analyse_jobs(last.cfg, last.env, last.before).db).db.recommendations

\* The same had the recommendations table been empty before the run.
AfterRecommendFromEmpty ==
    generate_recommendations(
        last.cfg, last.env,
        [last.before EXCEPT !.recommendations = EmptyTable]).db.recommendations

\* C18: recommend alone leaves the recommendation rows that analyse followed
\* by recommend leaves, and the rows of the analysable jobs do not depend on
\* what the recommendations table held before.
C18_RecommendRederives ==
    RecommendRan =>
        /\ recommendations = AfterAnalyseAndRecommend
        /\ \A key \in AnalysableKeys(jobs_table) :
              /\ key \in DOMAIN recommendations <=> key \in DOMAIN AfterRecommendFromEmpty
              /\ key \in DOMAIN recommendations =>
                     recommendations[key] = AfterRecommendFromEmpty[key]

\* Every call to a collaborator succeeds: the model service, when it is
\* consulted, replies with a text, the custom SLA file, when there is one,
\* is read, and the repository, when there is one, works.
CollaboratorsSucceed ==
    /\ last.env.service.kind \in {"unused", "reply"}
    /\ last.env.sla_file.kind \in {"unused", "ok"}
    /\ last.env.git \in {"unused", "ok"}

\* C19: when recommend runs on a storage with analysable jobs and every
\* collaborator call succeeds, it completes without raising and every
\* analysable job has a recommendation row whose executors, memory and
\* cores are the output of the engine for that job.
C19_RecommendCompletes ==
    (RecommendRan /\ AnalysableKeys(jobs_table) # {} /\ CollaboratorsSucceed) =>
        /\ ~last.raised
        /\ \A key \in AnalysableKeys(jobs_table) :
              LET out == recommend(last.cfg.openai_api_key, last.env.service,
                                   ResultOf(jobs_table, key))
              IN  /\ out.kind = "return"
                  /\ key \in DOMAIN recommendations
                  /\ recommendations[key].recommended_executors = out.rec.executors
                  /\ recommendations[key].recommended_memory = out.rec.memory
                  /\ recommendations[key].recommended_cores = out.rec.cores

\* The positions of the trace at which the notifier is called.
Notifications == {i \in 1..Len(last.trace) : last.trace[i].op = "send_message"}

\* C20: a run of recommend that processes at least one job sends exactly
\* one notification, after every upsert and after the commits and the push,
\* with one summary line for each job processed.
C20_OneNotification ==
    (RecommendRan /\ AnalysableKeys(jobs_table) # {}) =>
        /\ Notifications = {Len(last.trace)}
        /\ Len(last.trace[Len(last.trace)].lines) = Cardinality(AnalysableKeys(jobs_table))
        /\ \A key \in AnalysableKeys(jobs_table) :
              \E i \in 1..Len(last.trace) :
                  last.trace[i].op = "upsert" /\ last.trace[i].key = key

(***************************************************************************)
(* Further properties of the engine and of the analyzer.                   *)
(***************************************************************************)
\* C26: without a credential recommend makes no model call and returns the
\* heuristic recommendation; with or without one it makes at most one model
\* call for an AnalysisResult.
C26_ModelCalls ==
    Recommended =>
        /\ rec.out.calls <= 1
        /\ openai_api_key = "" =>
               /\ rec.out.calls = 0
               /\ rec.out.kind = "return"
               /\ rec.out.rec = HeuristicOutput(rec.input)

\* With a credential, a call that fails is made once and not repeated.
C26_Witness ==
    /\ Recommended
    /\ openai_api_key # "" /\ rec.service.kind = "error"
    /\ rec.out.kind = "return" /\ rec.out.calls = 1
    /\ rec.out.rec = HeuristicOutput(rec.input)

\* Both averages are known and one of them is zero.
ZeroAverage ==
    /\ rec.input.avg_cpu # None /\ rec.input.avg_memory # None
    /\ (rec.input.avg_cpu.num = <<>> \/ rec.input.avg_memory.num = <<>>)

EmptyIdEntry(job) == Keyed(job.id) /\ DOMAIN SlaTable[job.id.str] = {}

StageOrder == <<"profile", "analyse", "recommend">>

\* One stage called from main(): db.connect() (main.py 47, 122, 170), then
\* the stage, whose outcome on a server that is up is out.
Stage(stage, env, db, out) ==
    IF env.down = stage
    THEN [db |-> db, raised |-> TRUE,
          trace |-> <<[op |-> "start", stage |-> stage]>>]
    ELSE [db |-> out.db, raised |-> out.raised,
          trace |-> <<[op |-> "start", stage |-> stage]>> \o out.trace \o
                    (IF out.raised THEN <<>>
                     ELSE <<[op |-> "return", stage |-> stage]>>)]

\* Two statements of which the second is executed whatever the first did.
Then_Always(prev, next) ==
    [db |-> next.db, raised |-> prev.raised \/ next.raised,
     trace |-> prev.trace \o next.trace]

\* Two statements in sequence: an exception of the first ends the run.
Then(prev, next) ==
    IF prev.raised THEN prev
    ELSE [db |-> next.db, raised |-> next.raised,
          trace |-> prev.trace \o next.trace]

\* analyse_jobs(cfg) after profile_jobs(cfg), whose outcome is p.
FullAnalyse(cfg, env, p) ==
    Then(p, Stage("analyse", env, p.db, main_analyse_jobs(cfg, env, p.db)))

\* generate_recommendations(cfg) after the first two stages, whose outcome
\* is a.
FullRecommend(cfg, env, a) ==
    Then(a, Stage("recommend", env, a.db, generate_recommendations(cfg, env, a.db)))

full(cfg, env, db) ==
    FullRecommend(cfg, env,
        FullAnalyse(cfg, env,
            Stage("profile", env, db, profile_jobs(cfg, env, db))))

\* Without clusters and optional settings, and with two clusters and all
\* the optional settings but the model service.
FullModeConfigs ==
    {SlackConfig, [FullConfig EXCEPT !.clusters = <<Str("c1"), Str("c2")>>]}

FullModeEnvs(cfg) ==
    LET names == {ClustersOf(cfg)[i] : i \in 1..Len(ClustersOf(cfg))}
    IN  [yarn : [names -> YarnReplies], spark : SparkReplies,
         sla_file : SlaFiles(cfg), service : ServiceReplies(cfg),
         git : GitReplies(cfg),
         down : {"never"} \cup {StageOrder[i] : i \in 1..Len(StageOrder)}]

\* main(), mode "full", invoked once.
Full ==
    /\ last = None
    /\ pc = "pipeline"
    /\ \E cfg \in FullModeConfigs : \E env \in FullModeEnvs(cfg) :
          \E out \in {full(cfg, env, Db)} :
              /\ jobs_table' = out.db.jobs_table
              /\ spark_metrics' = out.db.spark_metrics
              /\ recommendations' = out.db.recommendations
              /\ last' = RunRecord("full", cfg, env, out)
    /\ runs' = runs + 1
    /\ UNCHANGED engine_vars
    /\ UNCHANGED loader_vars

FullModeNext == Full

FullMode == PipelineInit /\ [][FullModeNext]_vars

FullRan == last # None /\ last.stage = "full"

\* The stages started and the stages that returned, in the order of the run.
StagesWith(op) ==
    LET Is(e) == e.op = op
        marks == SelectSeq(last.trace, Is)
    IN  [i \in 1..Len(marks) |-> marks[i].stage]

StageReturned(stage) ==
    \E i \in 1..Len(StagesWith("return")) : StagesWith("return")[i] = stage

\* The keys of the rows the recommend stage of the run wrote.
RecommendedKeys ==
    {last.trace[i].key : i \in
        {i \in 1..Len(last.trace) :
            /\ last.trace[i].op = "upsert"
            /\ \E j \in 1..(i - 1) : last.trace[j] = [op |-> "start", stage |-> "recommend"]}}

\* C23: a run in mode full starts the stages in the order profile, analyse,
\* recommend, each at most once and each after the one before it returned;
\* it raises exactly when a started stage does not return, and that stage
\* is the last one started; and the storage holds what the stages wrote:
\* the jobs and metrics of profile once it returned, the analysis row of
\* every analysable job once analyse returned, with the recommendation in
\* the rows recommend wrote before it failed, and otherwise what was there
\* before the run.
C23_FullMode ==
    FullRan =>
        /\ Len(StagesWith("start")) \in 1..Len(StageOrder)
        /\ StagesWith("start") = SubSeq(StageOrder, 1, Len(StagesWith("start")))
        /\ StagesWith("return") = SubSeq(StageOrder, 1, Len(StagesWith("return")))
        /\ \A i \in 2..Len(last.trace) :
              last.trace[i].op = "start" =>
                  last.trace[i - 1].op = "return"
        /\ Len(StagesWith("start")) =
              Len(StagesWith("return")) + (IF last.raised THEN 1 ELSE 0)
        /\ ~last.raised => Len(StagesWith("return")) = Len(StageOrder)
        /\ IF StageReturned("profile")
           THEN /\ jobs_table = profile_jobs(last.cfg, last.env, last.before).db.jobs_table
                /\ spark_metrics = profile_jobs(last.cfg, last.env, last.before).db.spark_metrics
           ELSE Db = last.before
        /\ IF StageReturned("analyse")
           THEN \A key \in AnalysableKeys(jobs_table) :
                    /\ key \in DOMAIN recommendations
                    /\ recommendations[key].category = ResultOf(jobs_table, key).category
                    /\ IF key \in RecommendedKeys
                       THEN recommendations[key].recommended_memory # None
                       ELSE /\ recommendations[key].recommended_memory = None
                            /\ recommendations[key].notes = ResultOf(jobs_table, key).notes
           ELSE recommendations = last.before.recommendations

\* The run stores jobs, analyses two of them and fails in recommend after
\* the first row: nothing of the three stages is undone.
C23_Witness ==
    /\ FullRan /\ last.raised
    /\ StagesWith("return") = <<"profile", "analyse">>
    /\ jobs_table # last.before.jobs_table
    /\ Cardinality(AnalysableKeys(jobs_table)) >= 2
    /\ Cardinality(RecommendedKeys) = 1
    /\ \E key \in AnalysableKeys(jobs_table) :
          /\ key \notin RecommendedKeys
          /\ key \notin DOMAIN last.before.recommendations
          /\ key \in DOMAIN recommendations

(***************************************************************************)
(* main(), the loading of the configuration (main.py 278): from the        *)
(* environment, or from a file when --config is given.                     *)
(***************************************************************************)
\* Each variable unset or set.
Environs == [{Upper(field) : field \in Settings} -> {None, Str("from-env")}]

ConfigKeys == {"mysql_host", "MYSQL_HOST", "openai_api_key", "Custom_SLA_File", "unknown"}

\* The longest configuration file, in items.
MaxItems == 2

\* The configuration files: up to MaxItems items with different keys.
ConfigFiles ==
    LET Items == {<<key, Str("from-file")>> : key \in ConfigKeys}
    IN  {data \in UNION {[1..n -> Items] : n \in 0..MaxItems} :
            \A i, j \in DOMAIN data : data[i][1] = data[j][1] => i = j}

LoaderInit ==
    /\ jobs = <<>>
    /\ custom_sla = None
    /\ openai_api_key = ""
    /\ pc = "main"
    /\ analysis = None
    /\ rec = None
    /\ jobs_table = EmptyTable
    /\ spark_metrics = <<>>
    /\ recommendations = EmptyTable
    /\ last = None
    /\ runs = 0
    /\ environ \in Environs
    /\ config_data = <<>>
    /\ config = None

\* cfg = Config.from_env()
FromEnv ==
    /\ pc = "main"
    /\ config' = from_env(environ)
    /\ pc' = "from_env"
    /\ UNCHANGED <<jobs, custom_sla, openai_api_key, analysis, rec>>
    /\ UNCHANGED pipeline_vars
    /\ UNCHANGED <<environ, config_data>>

\* cfg = Config.from_file(args.config)
FromFile ==
    /\ pc = "main"
    /\ \E data \in ConfigFiles :
          /\ config_data' = data
          /\ config' = from_file(environ, data)
    /\ pc' = "from_file"
    /\ UNCHANGED <<jobs, custom_sla, openai_api_key, analysis, rec>>
    /\ UNCHANGED pipeline_vars
    /\ UNCHANGED environ

LoaderNext == FromEnv \/ FromFile

Loader == LoaderInit /\ [][LoaderNext]_vars

\* The file read defines the field, under a key of any case.
InFile(field) ==
    \E i \in DOMAIN config_data : Lower(config_data[i][1]) = field

\* C25: in the Config that from_file returns, every field that is set both
\* in the environment and in the file has the value of the environment.
C25_EnvironmentFirst ==
    pc = "from_file" =>
        \A field \in Settings :
            (environ[Upper(field)] # None /\ InFile(field)) =>
                config[field] = environ[Upper(field)]

(***************************************************************************)
(* Further properties of the stages of main.py.                            *)
(***************************************************************************)
\* The run of recommend had a repository of which an operation failed.
GitFails ==
    /\ RecommendRan
    /\ last.cfg.git_repo_path # ""
    /\ last.env.git \in {"nonzero", "missing", "write_error"}

\* The keys of the rows the last run wrote, in the order of the writes.
UpsertKeys ==
    LET IsUpsert(e) == e.op = "upsert"
        upserts == SelectSeq(last.trace, IsUpsert)
    IN  [i \in 1..Len(upserts) |-> upserts[i].key]

Upserted(key) == \E i \in 1..Len(UpsertKeys) : UpsertKeys[i] = key

\* C21: when an operation on the repository fails during recommend, the
\* stage does not raise, it writes the recommendation row of every
\* analysable job and it sends the notification.
C21_GitFailureContained ==
    (GitFails /\ AnalysableKeys(jobs_table) # {}) =>
        /\ ~last.raised
        /\ \A key \in AnalysableKeys(jobs_table) : Upserted(key)
        /\ Notifications # {}

\* C22: a run of analyse or of recommend leaves the table of jobs and the
\* table of executor metrics as they were before the run.
C22_JobsUntouched ==
    (AnalyseRan \/ RecommendRan) =>
        /\ jobs_table = last.before.jobs_table
        /\ spark_metrics = last.before.spark_metrics

\* A run of analyse on stored jobs and metrics that changes the
\* recommendations only.
C22_Witness ==
    /\ AnalyseRan /\ ~last.raised
    /\ jobs_table # EmptyTable /\ spark_metrics # <<>>
    /\ recommendations # last.before.recommendations
    /\ jobs_table = last.before.jobs_table
    /\ spark_metrics = last.before.spark_metrics

\* The custom SLA file of the run is configured and is unreadable, not
\* parseable, of another format, or not a table of definitions.
SlaFileFails ==
    /\ AnalyseRan \/ RecommendRan
    /\ last.cfg.custom_sla_file # ""
    /\ last.env.sla_file.kind \in {"error", "malformed"}

\* C24: with a custom SLA file that cannot be used, analyse and recommend
\* complete without raising and every analysable job has its row, with the
\* category of the threshold tiers.
C24_SlaFileFailure ==
    SlaFileFails =>
        /\ ~last.raised
        /\ \A key \in AnalysableKeys(jobs_table) :
              /\ key \in DOMAIN recommendations
              /\ recommendations[key].category = TierOf(jobs_table[key].elapsed_time)

\* C27: when analyse runs on rows that hold a recommendation, the row of
\* every job it analyses loses executors, memory and cores and takes the
\* notes of the analysis; the row of a job it skips keeps its recommendation.
C27_AnalyseOverwrites ==
    (AnalyseRan /\ ~last.raised) =>
        \A key \in DOMAIN last.before.recommendations :
            last.before.recommendations[key].recommended_memory # None =>
                /\ key \in DOMAIN recommendations
                /\ IF key \in AnalysableKeys(jobs_table)
                   THEN /\ recommendations[key].recommended_memory = None
                        /\ recommendations[key].recommended_executors = None
                        /\ recommendations[key].recommended_cores = None
                        /\ recommendations[key].notes = ResultOf(jobs_table, key).notes
                   ELSE recommendations[key] = last.before.recommendations[key]

\* The recommendation of (c2, app_1) is dropped with its note, that of the
\* skipped job (c1, app_3) is kept.
C27_Witness ==
    /\ AnalyseRan /\ ~last.raised
    /\ <<Str("c2"), Str("app_1")>> \in AnalysableKeys(jobs_table)
    /\ <<Str("c2"), Str("app_1")>> \in DOMAIN last.before.recommendations
    /\ last.before.recommendations[<<Str("c2"), Str("app_1")>>].notes = ReplyGood
    /\ recommendations[<<Str("c2"), Str("app_1")>>].recommended_memory = None
    /\ recommendations[<<Str("c2"), Str("app_1")>>].notes # ReplyGood
    /\ <<Str("c1"), Str("app_3")>> \notin AnalysableKeys(jobs_table)
    /\ <<Str("c1"), Str("app_3")>> \in DOMAIN recommendations
    /\ recommendations[<<Str("c1"), Str("app_3")>>].recommended_executors = 2

\* The analysable jobs in the order in which the stage takes them: the
\* order of the rows of the table of jobs.
AnalysisOrder ==
    LET Analysable(key) == key \in AnalysableKeys(jobs_table)
    IN  SelectSeq(KeyOrder, Analysable)

\* The position of the first entry of the trace with this operation and
\* key, 0 when there is none.
FirstAt(op, key) ==
    LET at == {i \in 1..Len(last.trace) :
                  /\ last.trace[i].op = op
                  /\ last.trace[i].key = key}
    IN  IF at = {} THEN 0 ELSE CHOOSE i \in at : \A j \in at : i <= j

\* C30: in the state a run of recommend leaves, aborted or not, the rows
\* written in the run are those of a prefix of the analysis order, each
\* written once; a file is written only after the row of its job and
\* committed only after it is written, all before the row of the next job;
\* and a notification is sent only after every row is written.
C30_RecommendOrder ==
    RecommendRan =>
        /\ Len(UpsertKeys) <= Len(AnalysisOrder)
        /\ \A i \in 1..Len(UpsertKeys) : UpsertKeys[i] = AnalysisOrder[i]
        /\ \A key \in DOMAIN recommendations \cup DOMAIN last.before.recommendations :
              ~Upserted(key) =>
                  /\ key \in DOMAIN recommendations
                  /\ key \in DOMAIN last.before.recommendations
                  /\ recommendations[key] = last.before.recommendations[key]
        /\ \A i \in 1..Len(last.trace) :
              /\ last.trace[i].op = "write" =>
                     /\ FirstAt("upsert", last.trace[i].key) \in 1..(i - 1)
                     /\ \A j \in 1..(i - 1) :
                            last.trace[j].op = "upsert" =>
                                j <= FirstAt("upsert", last.trace[i].key)
              /\ last.trace[i].op = "commit" =>
                     FirstAt("write", last.trace[i].key) = i - 1
              /\ last.trace[i].op = "send_message" =>
                     \A key \in AnalysableKeys(jobs_table) :
                         FirstAt("upsert", key) \in 1..(i - 1)

\* The stage aborts after the row and the file of the first of two jobs.
C30_Witness ==
    /\ RecommendRan /\ last.raised
    /\ Len(AnalysisOrder) >= 2
    /\ Len(UpsertKeys) = 1
    /\ FirstAt("write", AnalysisOrder[1]) > FirstAt("upsert", AnalysisOrder[1])
    /\ FirstAt("commit", AnalysisOrder[1]) > FirstAt("write", AnalysisOrder[1])
    /\ AnalysisOrder[2] \notin DOMAIN recommendations

====
